---- MODULE Spec2Model ----
(***************************************************************************)
(* A model of vimg's operation planner (VipsImage.Process and the stages   *)
(* it sequences), of its orientation resolver and of its capability        *)
(* registry cache.                                                         *)
(*                                                                         *)
(* The image engine (libvips) is external: each engine call either fails   *)
(* or produces a new engine handle.  Engine handles are numbered 1, 2, ... *)
(* in the order the engine hands them out; handles[h] counts the           *)
(* g_object_unref calls made on handle h.  calls is the log of engine      *)
(* calls in the order they were made.                                      *)
(***************************************************************************)
EXTENDS Integers, Sequences, FiniteSets, TLC

VARIABLES
    stack,      \* the Process invocations in progress: <<caller's image>> or
                \* <<caller's image, nested watermark image>>; one frame each
    handles,    \* handles[h]: number of g_object_unref calls on engine handle h
    calls,      \* engine calls made so far, oldest first
    objs,       \* objs[k]: number of times the k-th VipsImage object taken from
                \* vipsImagePool has gone back to the pool
    cache,      \* SupportedImageTypes: a function from the image types that have
                \* an entry to their SupportedImageType
    rw,         \* imageMutex: the callers holding it for reading, the caller
                \* holding it for writing (0: none), the callers blocked in Lock
    callers,    \* callers[c]: the goroutine c in IsImageTypeSupportedByVips
    discovered  \* number of calls of discoverSupportedImageTypes so far

vars == <<stack, handles, calls, objs, cache, rw, callers, discovered>>

pipelineVars == <<stack, handles, calls, objs>>
cacheVars == <<cache, rw, callers, discovered>>

(***************************************************************************)
(* Program constants                                                       *)
(***************************************************************************)
\* Angle values (type Angle); rotation in degrees
D0 == 0
D90 == 90
D180 == 180
D270 == 270

Angles == {D0, D90, D180, D270}

\* the nil *C.VipsImage
NilImage == 0

\* error values
NoErr == "nil"
ErrVipsImageNotValidPointer == "Image is not a valid pointer to *C.VipsImage"
ErrUnsupportedOutput == "Unsupported image output type"
ErrExtractAreaParamsRequired == "extract area width/height params are required"
ErrEngine == "vips error"
ErrCannotSave == "VIPS cannot save to"

(***************************************************************************)
(* Bounds of the model                                                     *)
(***************************************************************************)
\* EXIF orientation codes range over 0..MaxExif (1..8 are the defined codes)
MaxExif == 9

ExifCodes == 0..MaxExif

(***************************************************************************)
(* Options and frames                                                      *)
(***************************************************************************)
\* Options{}: the zero value of the options struct
DefaultOptions ==
    [ Width |-> 0, Height |-> 0,
      Force |-> FALSE, Crop |-> FALSE, Embed |-> FALSE, Enlarge |-> FALSE,
      MaintainAspect |-> FALSE, SmartCrop |-> FALSE, Trim |-> FALSE,
      Gravity |-> "centre",
      Extract |-> [Top |-> 0, Left |-> 0, Width |-> 0, Height |-> 0, Relative |-> FALSE],
      Rotate |-> D0, Flip |-> FALSE, Flop |-> FALSE, NoAutoRotate |-> FALSE,
      Zoom |-> 0,
      WatermarkText |-> FALSE,
      WatermarkImage |-> [Buf |-> "none", Width |-> 0, Relative |-> FALSE,
                          HAlign |-> "centre", VAlign |-> "centre",
                          HOffset |-> 0, VOffset |-> 0],
      Background |-> "black",
      GaussianBlur |-> [Sigma |-> 0, MinAmpl |-> 0],
      Sharpen |-> [Sigma |-> 0, Y2 |-> 0, Y3 |-> 0],
      Gamma |-> 0,
      Type |-> "UNKNOWN",
      WindowSize |-> 2 ]

\* a decoded source image; vips is the libvips version of the build
\* (VipsMajorVersion, VipsMinorVersion)
Source(type, w, h, exif, alpha) ==
    [Type |-> type, w |-> w, h |-> h, exif |-> exif, alpha |-> alpha,
     vips |-> [major |-> 8, minor |-> 3]]

\* A VipsImage being processed: the struct's fields (Options o, Image, Type,
\* Buffer), what the engine knows of the handle (Xsize, Ysize, exif, alpha),
\* the locals of Process (rotated, err, factor, shrink, residual), the pooled
\* object obj the struct is, and the local i of transformImage.
\* Buffer is [w, h, of]: the size of the encoded image and the handle it was
\* encoded from (NilImage: the bytes the caller supplied).
\* given is the options as the caller supplied them (o is updated in place);
\* angle, rotation and flip are the locals of the orientation resolver;
\* planned tells that Process has computed factor, shrink and residual;
\* inWidth and inHeight are Process's locals of that name; left, top and opts
\* are the locals of vipsDrawWatermark.
NewFrame(o, src, h, additive) ==
    [ pc |-> "Process", o |-> o, given |-> o,
      Image |-> h, Xsize |-> src.w, Ysize |-> src.h, Type |-> src.Type,
      exif |-> src.exif, alpha |-> src.alpha, vips |-> src.vips,
      Buffer |-> [w |-> src.w, h |-> src.h, of |-> NilImage],
      additive |-> additive,
      angle |-> D0, rotation |-> D0, flip |-> FALSE,
      rotated |-> FALSE, planned |-> FALSE, err |-> NoErr, obj |-> 1,
      i |-> [Image |-> NilImage, Buffer |-> [w |-> 0, h |-> 0, of |-> NilImage], obj |-> 0],
      inWidth |-> 0, inHeight |-> 0,
      left |-> <<0, 1>>, top |-> <<0, 1>>, opts |-> [left |-> 0, top |-> 0],
      crop |-> [left |-> 0, top |-> 0],
      factor |-> <<1, 1>>, shrink |-> 1, residual |-> <<0, 1>> ]

Top == stack[Len(stack)]

\* The state an operation works on: the frame of the running Process, the
\* engine's handles and the call log.
World(f) == [f |-> f, handles |-> handles, calls |-> calls, objs |-> objs]

Commit(w) ==
    /\ stack' = [stack EXCEPT ![Len(stack)] = w.f]
    /\ handles' = w.handles
    /\ calls' = w.calls
    /\ objs' = w.objs

Call(op, arg, ok, w) == [op |-> op, arg |-> arg, ok |-> ok, lvl |-> Len(stack), on |-> w.f.Image]

Logged(w, op, arg, ok) == [w EXCEPT !.calls = Append(@, Call(op, arg, ok, w))]

\* C.g_object_unref(C.gpointer(h))
Unref(w, h) == [w EXCEPT !.handles[h] = @ + 1]

\* the engine returns a new image of nw x nh in a fresh handle
Fresh(w) == Len(w.handles) + 1

\* The body shared by the vipsXxx wrappers that replace the handle:
\*   nil check; engine call; on failure return the engine's error;
\*   on success unref the old handle and store the new one.
ReplaceImage(w, op, arg, ok, nw, nh) ==
    IF w.f.Image = NilImage
    THEN [w EXCEPT !.f.err = ErrVipsImageNotValidPointer]
    ELSE IF ~ok
    THEN [Logged(w, op, arg, FALSE) EXCEPT !.f.err = ErrEngine]
    ELSE LET l == Logged(w, op, arg, TRUE)
             u == Unref(l, w.f.Image)
         IN  [u EXCEPT !.handles = Append(@, 0),
                       !.f.Image = Fresh(w),
                       !.f.Xsize = nw, !.f.Ysize = nh,
                       !.f.err = NoErr]

\* Process with the two watermark steps in the other order
ProcessOrderWatermarksSwapped ==
    << "Process", "rotateAndFlipImage", "getImageBuffer", "plan", "shrinkOnLoad",
       "zoomImage", "shouldTransformImage", "shouldApplyEffects", "watermarkWithImage",
       "watermarkWithText", "Flatten", "applyGamma", "return" >>

\* Process with the zoom ahead of the shrink-on-load
ProcessOrderZoomFirst ==
    << "Process", "rotateAndFlipImage", "getImageBuffer", "plan", "zoomImage",
       "shrinkOnLoad", "shouldTransformImage", "shouldApplyEffects", "watermarkWithText",
       "watermarkWithImage", "Flatten", "applyGamma", "return" >>

\* the steps of Process in the order of its body
ProcessOrder ==
    << "Process", "rotateAndFlipImage", "getImageBuffer", "plan", "shrinkOnLoad",
       "zoomImage", "shouldTransformImage", "shouldApplyEffects", "watermarkWithText",
       "watermarkWithImage", "Flatten", "applyGamma", "return" >>

\* the step of Process that follows a step
StageAfter(stage) ==
    ProcessOrder[(CHOOSE k \in 1..Len(ProcessOrder) : ProcessOrder[k] = stage) + 1]

(***************************************************************************)
(* Orientation resolver                                                    *)
(***************************************************************************)
\* the switch with the rotations of the codes 5 and 7 exchanged
ExifRotateTransposed(code) ==
    CASE code = 6 -> D90
      [] code = 3 -> D180
      [] code = 8 -> D270
      [] code = 7 -> D90
      [] code = 4 -> D180
      [] code = 5 -> D270
      [] OTHER -> D0

\* the switch of calculateRotationAndFlip: EXIF code -> rotation
ExifRotate(code) ==
    CASE code = 6 -> D90
      [] code = 3 -> D180
      [] code = 8 -> D270
      [] code = 7 -> D270
      [] code = 4 -> D180
      [] code = 5 -> D90
      [] OTHER -> D0

\* the switch of calculateRotationAndFlip: EXIF code -> flip
ExifFlip(code) == code \in {2, 7, 4, 5}

\* how the user's angle is combined with the EXIF rotation in additive mode
AddAngle(rotate, angle) == rotate + angle

\* calculateRotationAndFlip(additive): (rotate, flip, err)
calculateRotationAndFlip(f, additive) ==
    LET angle == f.o.Rotate IN
    IF angle > 0 /\ ~additive
    THEN [rotate |-> D0, flip |-> FALSE, err |-> NoErr]
    ELSE IF f.Image = NilImage      \* vipsExifOrientation's check
    THEN [rotate |-> D0, flip |-> FALSE, err |-> ErrVipsImageNotValidPointer]
    ELSE [rotate |-> IF additive THEN AddAngle(ExifRotate(f.exif), angle)
                                 ELSE ExifRotate(f.exif),
          flip   |-> ExifFlip(f.exif),
          err    |-> NoErr]

\* the size of the image the engine's rotate returns
RotatedSize(angle, w, h) ==
    IF angle % D180 = D90 THEN [w |-> h, h |-> w] ELSE [w |-> w, h |-> h]

vipsRotate(w, angle, ok) ==
    LET s == RotatedSize(angle, w.f.Xsize, w.f.Ysize)
    IN  ReplaceImage(w, "rotate", angle, ok, s.w, s.h)

vipsFlip(w, direction, ok) ==
    ReplaceImage(w, "flip", direction, ok, w.f.Xsize, w.f.Ysize)

\* what rotateAndFlipImage does with the error of a call when it goes on to
\* its next call: the next assignment to err overwrites it
KeepErr(before, after) == after

\* rotateAndFlipImage, first part: resolve the rotation and update the options
rotateAndFlipImage ==
    /\ stack # <<>>
    /\ Top.pc = "rotateAndFlipImage"
    /\ LET f == Top
           r == calculateRotationAndFlip(f, f.additive)
       IN  IF r.err # NoErr
           THEN Commit([World(f) EXCEPT !.f.err = r.err, !.f.pc = "return"])
           ELSE LET o1 == IF ~f.o.NoAutoRotate
                          THEN [f.o EXCEPT !.Flip = IF r.flip /\ f.o.Flip THEN FALSE ELSE @,
                                           !.Rotate = r.rotate]
                          ELSE f.o
                IN  Commit([World(f) EXCEPT !.f.o = o1, !.f.rotated = FALSE,
                                            !.f.angle = f.o.Rotate,
                                            !.f.rotation = r.rotate, !.f.flip = r.flip,
                                            !.f.err = NoErr, !.f.pc = "rotate"])
    /\ UNCHANGED cacheVars

\* rotateAndFlipImage: if img.Options.Rotate > 0 { ... vipsRotate ... }
rotateStep ==
    /\ stack # <<>>
    /\ Top.pc = "rotate"
    /\ \E ok \in BOOLEAN :
         LET f == Top
             w == IF f.o.Rotate > 0
                  THEN LET c == vipsRotate(World(f), f.o.Rotate, ok)
                       IN  [c EXCEPT !.f.rotated = TRUE,
                                     !.f.err = KeepErr(f.err, c.f.err)]
                  ELSE World(f)
         IN  Commit([w EXCEPT !.f.pc = "flip"])
    /\ UNCHANGED cacheVars

\* rotateAndFlipImage: if img.Options.Flip { ... vipsFlip(Vertical) ... }
flipStep ==
    /\ stack # <<>>
    /\ Top.pc = "flip"
    /\ \E ok \in BOOLEAN :
         LET f == Top
             w == IF f.o.Flip
                  THEN LET c == vipsFlip(World(f), "Vertical", ok)
                       IN  [c EXCEPT !.f.rotated = TRUE,
                                     !.f.err = KeepErr(f.err, c.f.err)]
                  ELSE World(f)
         IN  Commit([w EXCEPT !.f.pc = "flop"])
    /\ UNCHANGED cacheVars

\* rotateAndFlipImage: if img.Options.Flop { ... vipsFlip(Horizontal) ... },
\* its return, and Process's check of the returned error
flopStep ==
    /\ stack # <<>>
    /\ Top.pc = "flop"
    /\ \E ok \in BOOLEAN :
         LET f == Top
             w == IF f.o.Flop
                  THEN LET c == vipsFlip(World(f), "Horizontal", ok)
                       IN  [c EXCEPT !.f.rotated = TRUE,
                                     !.f.err = KeepErr(f.err, c.f.err)]
                  ELSE World(f)
         IN  Commit([w EXCEPT !.f.pc = IF w.f.err # NoErr THEN "return"
                                       ELSE StageAfter("rotateAndFlipImage")])
    /\ UNCHANGED cacheVars

(***************************************************************************)
(* Geometry calculator.  A float64 value is modelled by the exact rational *)
(* <<n, d>> (d > 0) in lowest terms.                                       *)
(***************************************************************************)
RECURSIVE GCD(_, _)
GCD(a, b) == IF b = 0 THEN a ELSE GCD(b, a % b)

Rat(n, d) == LET g == GCD(n, d) IN IF g = 0 THEN <<0, 1>> ELSE <<n \div g, d \div g>>

RatLess(a, b) == a[1] * b[2] < b[1] * a[2]

\* math.Min, math.Max
RatMin(a, b) == IF RatLess(b, a) THEN b ELSE a
RatMax(a, b) == IF RatLess(a, b) THEN b ELSE a

\* int(math.Floor(x)), x >= 0
Floor(a) == a[1] \div a[2]

IntMax(a, b) == IF a < b THEN b ELSE a
IntMin(a, b) == IF a < b THEN a ELSE b

\* roundFloat(f), f >= 0: int(math.Floor(f + 0.5))
roundFloat(a) == (2 * a[1] + a[2]) \div (2 * a[2])

\* the guard ScaleFactor, calculateShrink and calculateResidual start with
NoEnlargeGuard(o, inWidth, inHeight) ==
    ~o.Enlarge /\ ~o.Force /\ inWidth < o.Width /\ inHeight < o.Height

\* BothFixedFactor with the two ratios exchanged
BothFixedFactorSwapped(crop, xfactor, yfactor) ==
    IF crop THEN RatMax(xfactor, yfactor) ELSE RatMin(xfactor, yfactor)

\* which of the two ratios ScaleFactor takes when both dimensions are fixed
BothFixedFactor(crop, xfactor, yfactor) ==
    IF crop THEN RatMin(xfactor, yfactor) ELSE RatMax(xfactor, yfactor)

\* ScaleFactor(): the factor, and the options with the dimension it fills in.
\* xfactor (yfactor) is read only where o.Width (o.Height) is positive.
ScaleFactor(o, inWidth, inHeight) ==
    IF NoEnlargeGuard(o, inWidth, inHeight)
    THEN [factor |-> <<1, 1>>, o |-> o]
    ELSE CASE o.Width > 0 /\ o.Height > 0 ->
                [factor |-> BothFixedFactor(o.Crop, Rat(inWidth, o.Width),
                                            Rat(inHeight, o.Height)),
                 o |-> o]
           [] o.Width > 0 /\ o.Height <= 0 ->
                IF o.Crop
                THEN [factor |-> <<1, 1>>, o |-> [o EXCEPT !.Height = inHeight]]
                ELSE [factor |-> Rat(inWidth, o.Width),
                      o |-> [o EXCEPT !.Height =
                                roundFloat(Rat(inHeight * o.Width, inWidth))]]
           [] o.Width <= 0 /\ o.Height > 0 ->
                IF o.Crop
                THEN [factor |-> <<1, 1>>, o |-> [o EXCEPT !.Width = inWidth]]
                ELSE [factor |-> Rat(inHeight, o.Height),
                      o |-> [o EXCEPT !.Width =
                                roundFloat(Rat(inWidth * o.Height, inHeight))]]
           [] OTHER ->
                [factor |-> <<1, 1>>,
                 o |-> [o EXCEPT !.Width = inWidth, !.Height = inHeight]]

\* calculateShrink returning the floor as it is
calculateShrinkUnclamped(o, inWidth, inHeight) ==
    IF NoEnlargeGuard(o, inWidth, inHeight)
    THEN [shrink |-> 1, o |-> o]
    ELSE LET sf == ScaleFactor(o, inWidth, inHeight)
             factor == sf.factor
             shrink == IF ~RatLess(factor, <<2, 1>>) /\ o.WindowSize > 3
                       THEN Floor(Rat(factor[1] * 3, factor[2] * o.WindowSize))
                       ELSE Floor(factor)
         IN  [shrink |-> shrink, o |-> sf.o]

\* calculateShrink(): the integral shrink, and the options after its call of
\* ScaleFactor.  o.WindowSize is vipsWindowSize(o.Interpolator.String()).
calculateShrink(o, inWidth, inHeight) ==
    IF NoEnlargeGuard(o, inWidth, inHeight)
    THEN [shrink |-> 1, o |-> o]
    ELSE LET sf == ScaleFactor(o, inWidth, inHeight)
             factor == sf.factor
             shrink == IF ~RatLess(factor, <<2, 1>>) /\ o.WindowSize > 3
                       THEN Floor(Rat(factor[1] * 3, factor[2] * o.WindowSize))
                       ELSE Floor(factor)
         IN  [shrink |-> IntMax(shrink, 1), o |-> sf.o]

\* calculateResidual dividing the factor by the shrink
calculateResidualInverted(o, inWidth, inHeight) ==
    IF NoEnlargeGuard(o, inWidth, inHeight)
    THEN [residual |-> <<0, 1>>, o |-> o]
    ELSE LET cs == calculateShrink(o, inWidth, inHeight)
             sf == ScaleFactor(cs.o, inWidth, inHeight)
         IN  [residual |-> Rat(sf.factor[1], cs.shrink * sf.factor[2]), o |-> sf.o]

\* calculateResidual(): 0 under the guard, else calculateShrink()/ScaleFactor()
calculateResidual(o, inWidth, inHeight) ==
    IF NoEnlargeGuard(o, inWidth, inHeight)
    THEN [residual |-> <<0, 1>>, o |-> o]
    ELSE LET cs == calculateShrink(o, inWidth, inHeight)
             sf == ScaleFactor(cs.o, inWidth, inHeight)
         IN  [residual |-> Rat(cs.shrink * sf.factor[2], sf.factor[1]), o |-> sf.o]

\* normalizeOperation()
normalizeOperation(o) ==
    IF ~o.MaintainAspect /\ ~o.Force /\ ~o.Crop /\ ~o.Embed /\ ~o.Enlarge
       /\ o.Rotate = 0 /\ (o.Width > 0 \/ o.Height > 0)
    THEN [o EXCEPT !.Force = TRUE]
    ELSE o

\* ClampToSource leaving the requested size as it is
ClampToSourceSkipped(o, inWidth, inHeight) == o

\* Process, lines 119-125: do not enlarge the output
ClampToSource(o, inWidth, inHeight) ==
    IF ~o.Enlarge /\ ~o.Force /\ inWidth < o.Width /\ inHeight < o.Height
    THEN [o EXCEPT !.Width = inWidth, !.Height = inHeight]
    ELSE o

\* shouldTransformImage not asking for Enlarge where the request is larger
shouldTransformImageAnyLarger(f) ==
    LET o == f.o  inWidth == f.Xsize  inHeight == f.Ysize IN
    \/ o.Force
    \/ (o.Width > 0 /\ o.Width < inWidth)
    \/ (o.Height > 0 /\ o.Height < inHeight)
    \/ o.Extract.Width > 0
    \/ o.Extract.Height > 0
    \/ (o.Height > 0 /\ o.Height > inHeight)
    \/ (o.Width > 0 /\ o.Width > inWidth)
    \/ o.Trim

\* shouldTransformImage()
shouldTransformImage(f) ==
    LET o == f.o  inWidth == f.Xsize  inHeight == f.Ysize IN
    \/ o.Force
    \/ (o.Width > 0 /\ o.Width < inWidth)
    \/ (o.Height > 0 /\ o.Height < inHeight)
    \/ o.Extract.Width > 0
    \/ o.Extract.Height > 0
    \/ (o.Height > 0 /\ o.Height > inHeight /\ o.Enlarge)
    \/ (o.Width > 0 /\ o.Width > inWidth /\ o.Enlarge)
    \/ o.Trim

\* shouldApplyEffects(): && binds tighter than ||
shouldApplyEffects(o) ==
    \/ o.GaussianBlur.Sigma > 0
    \/ o.GaussianBlur.MinAmpl > 0
    \/ (o.Sharpen.Sigma > 0 /\ o.Sharpen.Y2 > 0)
    \/ o.Sharpen.Y3 > 0

(***************************************************************************)
(* Process: from the output-type check to the transform gate               *)
(***************************************************************************)
\* where Process goes after a call: it returns the error, or goes on
After(w, next) == [w EXCEPT !.f.pc = IF w.f.err # NoErr THEN "return" ELSE next]

\* applyDefaults(): the fields the planner reads
applyDefaults(f) == IF f.o.Type = "UNKNOWN" THEN [f.o EXCEPT !.Type = f.Type] ELSE f.o

\* the keys of the ImageTypes map
ImageTypes == {"JPEG", "PNG", "WEBP", "TIFF", "GIF", "PDF", "SVG", "MAGICK"}

\* VipsIsTypeSupported(t), VipsIsTypeSupportedSave(t): what the libvips build
\* of the model can load and save
VipsIsTypeSupported(t) == t \in ImageTypes \ {"MAGICK"}
VipsIsTypeSupportedSave(t) == t \in {"JPEG", "WEBP", "PNG", "TIFF"}

\* IsTypeSupported(t), IsTypeSupportedSave(t): the registry's Load and Save
\* entries of a type of the ImageTypes map
IsTypeSupported(t) == t \in ImageTypes /\ VipsIsTypeSupported(t)
IsTypeSupportedSave(t) == t \in ImageTypes /\ VipsIsTypeSupportedSave(t)

\* Process, lines 87-93: applyDefaults, then IsTypeSupported(img.Options.Type)
Process ==
    /\ stack # <<>>
    /\ Top.pc = "Process"
    /\ LET f == Top
           o1 == applyDefaults(f)
       IN    IF ~IsTypeSupported(o1.Type)
             THEN Commit([World(f) EXCEPT !.f.o = o1, !.f.err = ErrUnsupportedOutput,
                                          !.f.pc = "return"])
             ELSE Commit([World(f) EXCEPT !.f.o = o1, !.f.pc = StageAfter("Process")])
    /\ UNCHANGED cacheVars

\* getImageBuffer leaving img.Buffer as it was
getImageBufferStale(w, ok) ==
    IF w.f.Image = NilImage
    THEN [w EXCEPT !.f.err = ErrVipsImageNotValidPointer]
    ELSE IF ~ok
    THEN [Logged(w, "save", w.f.Type, FALSE) EXCEPT !.f.err = ErrEngine]
    ELSE [Logged(w, "save", w.f.Type, TRUE) EXCEPT !.f.err = NoErr]

\* getImageBuffer(): encode the handle; the handle is kept
getImageBuffer(w, ok) ==
    IF w.f.Image = NilImage
    THEN [w EXCEPT !.f.err = ErrVipsImageNotValidPointer]
    ELSE IF ~ok
    THEN [Logged(w, "save", w.f.Type, FALSE) EXCEPT !.f.err = ErrEngine]
    ELSE [Logged(w, "save", w.f.Type, TRUE)
            EXCEPT !.f.Buffer = [w |-> w.f.Xsize, h |-> w.f.Ysize, of |-> w.f.Image],
                   !.f.err = NoErr]

\* Process, lines 106-111: if rotated, refresh the buffer from the handle
refreshBuffer ==
    /\ stack # <<>>
    /\ Top.pc = "getImageBuffer"
    /\ \E ok \in BOOLEAN :
         LET f == Top
             w == IF f.rotated THEN getImageBuffer(World(f), ok) ELSE World(f)
         IN  Commit(After(w, StageAfter("getImageBuffer")))
    /\ UNCHANGED cacheVars

\* supportsShrinkOnLoad of Process, lines 132-133
supportsShrinkOnLoad(f) ==
    \/ (f.Type = "WEBP" /\ f.vips.major >= 8 /\ f.vips.minor >= 3)
    \/ f.Type = "JPEG"

\* Process, lines 113-129: normalizeOperation, the enlargement clamp, and the
\* three geometry values
plan ==
    /\ stack # <<>>
    /\ Top.pc = "plan"
    /\ LET f == Top
           o1 == normalizeOperation(f.o)
           o2 == ClampToSource(o1, f.Xsize, f.Ysize)
           sf == ScaleFactor(o2, f.Xsize, f.Ysize)
           cs == calculateShrink(sf.o, f.Xsize, f.Ysize)
           cr == calculateResidual(cs.o, f.Xsize, f.Ysize)
           f1 == [f EXCEPT !.o = cr.o, !.factor = sf.factor, !.shrink = cs.shrink,
                           !.residual = cr.residual, !.planned = TRUE,
                           !.inWidth = f.Xsize, !.inHeight = f.Ysize]
       IN  Commit([World(f1) EXCEPT !.f.pc = StageAfter("plan")])
    /\ UNCHANGED cacheVars

\* the size of a JPEG or WebP decoded with a load-time shrink
LoadShrunk(n, shrink) == (n + shrink - 1) \div shrink

\* vipsShrinkJpeg(shrink), vipsShrinkWebp(shrink): decode img.Buffer again
vipsShrinkJpeg(w, shrink, ok) ==
    ReplaceImage(w, "shrink_jpeg", shrink, ok,
                 LoadShrunk(w.f.Buffer.w, shrink), LoadShrunk(w.f.Buffer.h, shrink))

vipsShrinkWebp(w, shrink, ok) ==
    ReplaceImage(w, "shrink_webp", shrink, ok,
                 LoadShrunk(w.f.Buffer.w, shrink), LoadShrunk(w.f.Buffer.h, shrink))

\* the load-time shrink shrinkOnLoad picks for a JPEG
JpegShrinkOnLoad(shrink) == IF shrink >= 8 THEN 8 ELSE IF shrink >= 4 THEN 4 ELSE 2

\* Process, lines 131-143: if supportsShrinkOnLoad && shrink >= 2, shrinkOnLoad()
shrinkOnLoad ==
    /\ stack # <<>>
    /\ Top.pc = "shrinkOnLoad"
    /\ \E ok \in BOOLEAN :
         LET f == Top
             gate == supportsShrinkOnLoad(f) /\ f.shrink >= 2
             cs == calculateShrink(f.o, f.Xsize, f.Ysize)
             sf == ScaleFactor(cs.o, f.Xsize, f.Ysize)
             f1 == [f EXCEPT !.o = sf.o]
             k == JpegShrinkOnLoad(cs.shrink)
             w == CASE f.Type = "JPEG" /\ cs.shrink >= 2 ->
                         [vipsShrinkJpeg(World(f1), k, ok)
                            EXCEPT !.f.factor = Rat(sf.factor[1], sf.factor[2] * k)]
                    [] f.Type = "WEBP" /\ cs.shrink >= 2 ->
                         [vipsShrinkWebp(World(f1), cs.shrink, ok)
                            EXCEPT !.f.factor = sf.factor]
                    [] OTHER -> [World(f1) EXCEPT !.f.factor = sf.factor]
             factor == RatMax(w.f.factor, <<1, 1>>)
         IN  IF ~gate
             THEN Commit([World(f) EXCEPT !.f.pc = StageAfter("shrinkOnLoad")])
             ELSE IF w.f.err # NoErr
             THEN Commit([w EXCEPT !.f.pc = "return"])
             ELSE Commit([w EXCEPT !.f.factor = factor,
                                   !.f.shrink = Floor(factor),
                                   !.f.residual = Rat(Floor(factor) * factor[2], factor[1]),
                                   !.f.pc = StageAfter("shrinkOnLoad")])
    /\ UNCHANGED cacheVars

vipsZoom(w, zoom, ok) ==
    ReplaceImage(w, "zoom", zoom, ok, w.f.Xsize * zoom, w.f.Ysize * zoom)

\* zoomImage()
zoomImage ==
    /\ stack # <<>>
    /\ Top.pc = "zoomImage"
    /\ \E ok \in BOOLEAN :
         LET f == Top
             w == IF f.o.Zoom # 0 THEN vipsZoom(World(f), f.o.Zoom + 1, ok) ELSE World(f)
         IN  Commit(After(w, StageAfter("zoomImage")))
    /\ UNCHANGED cacheVars

\* Process, lines 151-157: the transform gate
transformGate ==
    /\ stack # <<>>
    /\ Top.pc = "shouldTransformImage"
    /\ Commit([World(Top) EXCEPT !.f.pc = IF shouldTransformImage(Top)
                                          THEN "shrinkImage"
                                          ELSE StageAfter("shouldTransformImage")])
    /\ UNCHANGED cacheVars

(***************************************************************************)
(* The transform stage                                                     *)
(***************************************************************************)
\* x / y on Go ints (truncates toward zero), y > 0
GoDiv(x, y) == IF x >= 0 THEN x \div y ELSE -((-x) \div y)

\* the size vips_shrink gives a dimension (rounded, never below 1)
Shrunk(n, shrink) == IntMax(1, (2 * n + shrink) \div (2 * shrink))

\* the size vips_resize gives a dimension (rounded, never below 1)
Resized(n, scale) == IntMax(1, roundFloat(Rat(n * scale[1], scale[2])))

vipsShrink(w, shrink, ok) ==
    ReplaceImage(w, "shrink", shrink, ok,
                 Shrunk(w.f.Xsize, shrink), Shrunk(w.f.Ysize, shrink))

\* the engine rejects a scale that is not positive
vipsResize(w, scale, ok) ==
    ReplaceImage(w, "resize", scale, ok /\ scale[1] > 0,
                 Resized(w.f.Xsize, scale), Resized(w.f.Ysize, scale))

\* which of the two ratios shrinkImage takes
ShrunkResidual(crop, residualx, residualy) ==
    IF crop THEN RatMax(residualx, residualy) ELSE RatMin(residualx, residualy)

\* shrinkImage(o, residual, shrink): the recomputed residual is left in f.residual
shrinkImage(w, shrink, ok) ==
    LET c == vipsShrink(w, shrink, ok) IN
    IF c.f.err # NoErr
    THEN c
    ELSE [c EXCEPT !.f.residual =
             ShrunkResidual(c.f.o.Crop, Rat(IntMax(c.f.o.Width, 0), c.f.Xsize),
                            Rat(IntMax(c.f.o.Height, 0), c.f.Ysize))]

\* transformImage, lines 278-284
shrinkStep ==
    /\ stack # <<>>
    /\ Top.pc = "shrinkImage"
    /\ \E ok \in BOOLEAN :
         LET f == Top
             w == IF f.shrink > 1 THEN shrinkImage(World(f), f.shrink, ok) ELSE World(f)
         IN  Commit(After(w, "vipsResize"))
    /\ UNCHANGED cacheVars

\* Force leaving Crop and Embed as they are
ClearFramingKept(o) == o

\* transformImage, lines 293-296: Force clears Crop and Embed
ClearFraming(o) == IF o.Force THEN [o EXCEPT !.Crop = FALSE, !.Embed = FALSE] ELSE o

\* transformImage, lines 286-296
resizeStep ==
    /\ stack # <<>>
    /\ Top.pc = "vipsResize"
    /\ \E ok \in BOOLEAN :
         LET f == Top
             w == IF f.o.Force \/ f.residual[1] # 0
                  THEN vipsResize(World(f), f.residual, ok)
                  ELSE World(f)
             o1 == ClearFraming(w.f.o)
         IN  IF w.f.err # NoErr
             THEN Commit([w EXCEPT !.f.pc = "return"])
             ELSE Commit([w EXCEPT !.f.o = o1, !.f.pc = "extractOrEmbedImage"])
    /\ UNCHANGED cacheVars

\* the names of the Gravity constants
Gravities == {"centre", "north", "east", "south", "west", "smart"}

\* calculateCrop with the far-edge offsets one pixel further
calculateCropPastEdge(inWidth, inHeight, outWidth, outHeight, gravity) ==
    CASE gravity = "north" ->
            [left |-> GoDiv(inWidth - outWidth + 1, 2), top |-> 0]
      [] gravity = "east" ->
            [left |-> inWidth - outWidth + 1, top |-> GoDiv(inHeight - outHeight + 1, 2)]
      [] gravity = "south" ->
            [left |-> GoDiv(inWidth - outWidth + 1, 2), top |-> inHeight - outHeight + 1]
      [] gravity = "west" ->
            [left |-> 0, top |-> GoDiv(inHeight - outHeight + 1, 2)]
      [] OTHER ->
            [left |-> GoDiv(inWidth - outWidth + 1, 2),
             top |-> GoDiv(inHeight - outHeight + 1, 2)]

\* calculateCrop with the differences halved without the + 1
calculateCropNoRound(inWidth, inHeight, outWidth, outHeight, gravity) ==
    CASE gravity = "north" ->
            [left |-> GoDiv(inWidth - outWidth, 2), top |-> 0]
      [] gravity = "east" ->
            [left |-> inWidth - outWidth, top |-> GoDiv(inHeight - outHeight, 2)]
      [] gravity = "south" ->
            [left |-> GoDiv(inWidth - outWidth, 2), top |-> inHeight - outHeight]
      [] gravity = "west" ->
            [left |-> 0, top |-> GoDiv(inHeight - outHeight, 2)]
      [] OTHER ->
            [left |-> GoDiv(inWidth - outWidth, 2),
             top |-> GoDiv(inHeight - outHeight, 2)]

\* calculateCrop(inWidth, inHeight, outWidth, outHeight, gravity)
calculateCrop(inWidth, inHeight, outWidth, outHeight, gravity) ==
    CASE gravity = "north" ->
            [left |-> GoDiv(inWidth - outWidth + 1, 2), top |-> 0]
      [] gravity = "east" ->
            [left |-> inWidth - outWidth, top |-> GoDiv(inHeight - outHeight + 1, 2)]
      [] gravity = "south" ->
            [left |-> GoDiv(inWidth - outWidth + 1, 2), top |-> inHeight - outHeight]
      [] gravity = "west" ->
            [left |-> 0, top |-> GoDiv(inHeight - outHeight + 1, 2)]
      [] OTHER ->
            [left |-> GoDiv(inWidth - outWidth + 1, 2),
             top |-> GoDiv(inHeight - outHeight + 1, 2)]

\* vips_extract_area accepts only a non-empty area inside the image
AreaInside(f, left, top, width, height) ==
    /\ left >= 0 /\ top >= 0 /\ width >= 1 /\ height >= 1
    /\ left + width <= f.Xsize /\ top + height <= f.Ysize

NoImage == [Image |-> NilImage, Buffer |-> [w |-> 0, h |-> 0, of |-> NilImage], obj |-> 0]

\* vipsExtract(left, top, width, height): the extracted area as a new
\* VipsImage taken from the pool, left in f.i (NoImage when it returns nil).
\* The sizes of the model stay below MaxSize.
vipsExtract(w, left0, top0, width0, height0, ok, okSave) ==
    IF w.f.Image = NilImage
    THEN [w EXCEPT !.f.err = ErrVipsImageNotValidPointer, !.f.i = NoImage]
    ELSE
    LET rel == w.f.o.Extract.Relative
        top == IF rel THEN GoDiv(w.f.Ysize * top0, 100) ELSE top0
        left == IF rel THEN GoDiv(w.f.Xsize * left0, 100) ELSE left0
        height == IF rel THEN GoDiv(w.f.Ysize * height0, 100) ELSE height0
        width == IF rel THEN GoDiv(w.f.Xsize * width0, 100) ELSE width0
        area == [left |-> left, top |-> top, width |-> width, height |-> height]
    IN  IF ~(ok /\ AreaInside(w.f, left, top, width, height))
        THEN [Logged(w, "extract", area, FALSE) EXCEPT !.f.err = ErrEngine, !.f.i = NoImage]
        ELSE LET l == Logged(w, "extract", area, TRUE)
                 image == Fresh(w)
                 a == [l EXCEPT !.handles = Append(@, 0), !.objs = Append(@, 0)]
                 obj == Len(a.objs)
                 \* i.Buffer, e = i.getImageBuffer()
                 call == [op |-> "save", arg |-> "JPEG", ok |-> okSave,
                          lvl |-> Len(stack), on |-> image]
                 b == [a EXCEPT !.calls = Append(@, call)]
             IN  IF ~okSave
                 THEN [b EXCEPT !.f.err = ErrEngine, !.f.i = NoImage]
                 ELSE [b EXCEPT !.f.err = NoErr,
                                !.f.i = [Image |-> image,
                                         Buffer |-> [w |-> width, h |-> height, of |-> image],
                                         obj |-> obj]]

vipsSmartCrop(w, width, height, ok) ==
    ReplaceImage(w, "smartcrop", <<width, height>>,
                 ok /\ width >= 1 /\ height >= 1 /\ width <= w.f.Xsize /\ height <= w.f.Ysize,
                 width, height)

vipsEmbed(w, left, top, width, height, ok) ==
    ReplaceImage(w, "embed", <<left, top, width, height>>,
                 ok /\ width >= 1 /\ height >= 1, width, height)

\* the boxes vips_find_trim may report for the image, as (top, left, width, height)
TrimBoxes(f) ==
    { [top |-> 0, left |-> 0, width |-> f.Xsize, height |-> f.Ysize],
      [top |-> 1, left |-> 0, width |-> f.Xsize, height |-> f.Ysize - 1] }

\* vipsTrim(background, threshold): (top, left, width, height, err)
vipsTrim(w, box, ok) ==
    IF w.f.Image = NilImage
    THEN [w EXCEPT !.f.err = ErrVipsImageNotValidPointer]
    ELSE IF ~ok
    THEN [Logged(w, "trim", "box", FALSE) EXCEPT !.f.err = ErrEngine]
    ELSE [Logged(w, "trim", box, TRUE) EXCEPT !.f.err = NoErr]

\* what the trim case of extractOrEmbedImage returns as its error: the case
\* declares its own err, the function's err stays nil
TrimCaseErr(inner) == NoErr

\* ExtractCase with the crop case ahead of the smartcrop case
ExtractCaseCropFirst(o) ==
    CASE o.Crop -> "crop"
      [] o.Gravity = "smart" \/ o.SmartCrop -> "smartcrop"
      [] o.Embed -> "embed"
      [] o.Trim -> "trim"
      [] o.Extract.Top # 0 \/ o.Extract.Left # 0 \/ o.Extract.Width # 0
           \/ o.Extract.Height # 0 -> "extract"
      [] OTHER -> "none"

\* which case of extractOrEmbedImage's switch is taken
ExtractCase(o) ==
    CASE o.Gravity = "smart" \/ o.SmartCrop -> "smartcrop"
      [] o.Crop -> "crop"
      [] o.Embed -> "embed"
      [] o.Trim -> "trim"
      [] o.Extract.Top # 0 \/ o.Extract.Left # 0 \/ o.Extract.Width # 0
           \/ o.Extract.Height # 0 -> "extract"
      [] OTHER -> "none"

\* extractOrEmbedImage(o): (image, err) left in f.i and f.err
extractOrEmbedImage(w, box, ok, ok2, okSave) ==
    LET f == w.f
        o == f.o
        inWidth == f.Xsize
        inHeight == f.Ysize
        branch == ExtractCase(o)
        w0 == [w EXCEPT !.f.i = NoImage, !.f.err = NoErr]
    IN  CASE branch = "smartcrop" -> vipsSmartCrop(w0, o.Width, o.Height, ok)
          [] branch = "crop" ->
               LET width == IntMin(inWidth, o.Width)
                   height == IntMin(inHeight, o.Height)
                   c == calculateCrop(inWidth, inHeight, o.Width, o.Height, o.Gravity)
               IN  vipsExtract(w0, IntMax(c.left, 0), IntMax(c.top, 0), width, height,
                               ok, okSave)
          [] branch = "embed" ->
               vipsEmbed(w0, GoDiv(o.Width - inWidth, 2), GoDiv(o.Height - inHeight, 2),
                         o.Width, o.Height, ok)
          [] branch = "trim" ->
               \* left, top, width, height, err := img.vipsTrim(...)
               LET t == vipsTrim(w0, box, ok)
                   e == IF t.f.err = NoErr
                        THEN vipsExtract(t, box.top, box.left, box.width, box.height,
                                         ok2, okSave)
                        ELSE t
               IN  [e EXCEPT !.f.err = TrimCaseErr(e.f.err)]
          [] branch = "extract" ->
               LET width == IF o.Extract.Width = 0 THEN o.Width ELSE o.Extract.Width
                   height == IF o.Extract.Height = 0 THEN o.Height ELSE o.Extract.Height
               IN  IF width = 0 \/ height = 0
                   THEN [w0 EXCEPT !.f.err = ErrExtractAreaParamsRequired]
                   ELSE vipsExtract(w0, o.Extract.Left, o.Extract.Top, width, height,
                                    ok, okSave)
          [] OTHER -> w0

\* DecrementReferenceCount() of a pooled VipsImage: it goes back to the pool
\* (ResetVipsImage sets its Image to nil without releasing the handle)
DecrementReferenceCount(w, obj) == [w EXCEPT !.objs[obj] = @ + 1]

\* transformImage, lines 298-316: take over the image extractOrEmbedImage made
TakeImage(w) ==
    IF w.f.i.Image # NilImage /\ w.f.i.Buffer.w * w.f.i.Buffer.h > 0
    THEN LET u == Unref(w, w.f.Image)
             t == [u EXCEPT !.f.Image = w.f.i.Image,
                            !.f.Xsize = w.f.i.Buffer.w, !.f.Ysize = w.f.i.Buffer.h,
                            !.f.Buffer = w.f.i.Buffer,
                            !.f.i = NoImage]
         IN  DecrementReferenceCount(t, w.f.i.obj)
    ELSE w

extractStep ==
    /\ stack # <<>>
    /\ Top.pc = "extractOrEmbedImage"
    /\ \E ok \in BOOLEAN, ok2 \in BOOLEAN, okSave \in BOOLEAN, box \in TrimBoxes(Top) :
         LET w == extractOrEmbedImage(World(Top), box, ok, ok2, okSave)
         IN  IF w.f.err # NoErr
             THEN Commit([w EXCEPT !.f.pc = "return"])
             ELSE Commit([TakeImage(w) EXCEPT !.f.pc = StageAfter("shouldTransformImage")])
    /\ UNCHANGED cacheVars

(***************************************************************************)
(* Effects, watermarks, flatten, gamma                                     *)
(***************************************************************************)
\* Process, lines 159-165
effectsGate ==
    /\ stack # <<>>
    /\ Top.pc = "shouldApplyEffects"
    /\ Commit([World(Top) EXCEPT !.f.pc = IF shouldApplyEffects(Top.o)
                                          THEN "vipsGaussianBlur"
                                          ELSE StageAfter("shouldApplyEffects")])
    /\ UNCHANGED cacheVars

vipsGaussianBlur(w, ok) ==
    ReplaceImage(w, "blur", IF w.f.o.GaussianBlur.Sigma = 0 THEN 1 ELSE w.f.o.GaussianBlur.Sigma,
                 ok, w.f.Xsize, w.f.Ysize)

vipsSharpen(w, ok) == ReplaceImage(w, "sharpen", w.f.o.Sharpen.Sigma, ok, w.f.Xsize, w.f.Ysize)

\* applyEffects, lines 322-327
blurStep ==
    /\ stack # <<>>
    /\ Top.pc = "vipsGaussianBlur"
    /\ \E ok \in BOOLEAN :
         LET f == Top
             w == IF f.o.GaussianBlur.Sigma > 0 \/ f.o.GaussianBlur.MinAmpl > 0
                  THEN vipsGaussianBlur(World(f), ok) ELSE World(f)
         IN  Commit(After(w, "vipsSharpen"))
    /\ UNCHANGED cacheVars

\* applyEffects, lines 329-334
sharpenStep ==
    /\ stack # <<>>
    /\ Top.pc = "vipsSharpen"
    /\ \E ok \in BOOLEAN :
         LET f == Top
             w == IF (f.o.Sharpen.Sigma > 0 /\ f.o.Sharpen.Y2 > 0) \/ f.o.Sharpen.Y3 > 0
                  THEN vipsSharpen(World(f), ok) ELSE World(f)
         IN  Commit(After(w, StageAfter("shouldApplyEffects")))
    /\ UNCHANGED cacheVars

vipsWatermark(w, ok) == ReplaceImage(w, "watermark_text", "text", ok, w.f.Xsize, w.f.Ysize)

\* watermarkWithText()
watermarkWithText ==
    /\ stack # <<>>
    /\ Top.pc = "watermarkWithText"
    /\ \E ok \in BOOLEAN :
         LET f == Top
             w == IF f.o.WatermarkText THEN vipsWatermark(World(f), ok) ELSE World(f)
         IN  Commit(After(w, StageAfter("watermarkWithText")))
    /\ UNCHANGED cacheVars

\* wmOptions carrying the watermarks of the image over to the watermark
wmOptionsInherited(f) ==
    LET o == f.o.WatermarkImage IN
    [DefaultOptions EXCEPT
        !.Width = IF o.Relative THEN GoDiv(f.Xsize * o.Width, 100) ELSE o.Width,
        !.Force = FALSE, !.MaintainAspect = TRUE, !.Enlarge = FALSE,
        !.Background = "black",
        !.WatermarkText = f.o.WatermarkText, !.WatermarkImage = o]

\* the options vipsDrawWatermark gives the watermark image
wmOptions(f) ==
    LET o == f.o.WatermarkImage IN
    [DefaultOptions EXCEPT
        !.Width = IF o.Relative THEN GoDiv(f.Xsize * o.Width, 100) ELSE o.Width,
        !.Force = FALSE, !.MaintainAspect = TRUE, !.Enlarge = FALSE,
        !.Background = "black"]

\* the watermark image decoded from WatermarkImage.Buf
WatermarkSource(buf) ==
    [Type |-> buf, w |-> 4, h |-> 2, exif |-> 1, alpha |-> FALSE,
     vips |-> [major |-> 8, minor |-> 3]]

\* watermarkWithImage(), and vipsDrawWatermark up to watermark.Process():
\* NewVipsImage takes an object from the pool and loads the buffer into it
watermarkWithImage ==
    /\ stack # <<>>
    /\ Top.pc = "watermarkWithImage"
    /\ \E loaded \in BOOLEAN :
         LET f == Top IN
         IF f.o.WatermarkImage.Buf = "none"
         THEN Commit([World(f) EXCEPT !.f.pc = StageAfter("watermarkWithImage")])
         ELSE IF f.Image = NilImage
         THEN Commit([World(f) EXCEPT !.f.err = ErrVipsImageNotValidPointer,
                                      !.f.pc = "return"])
         ELSE IF ~loaded
         THEN \* ret.Load fails: NewVipsImage returns nil, err
              /\ stack' = [stack EXCEPT ![Len(stack)] =
                              [f EXCEPT !.err = ErrEngine, !.pc = "return"]]
              /\ objs' = Append(objs, 0)
              /\ calls' = Append(calls, [op |-> "load", arg |-> f.o.WatermarkImage.Buf,
                                         ok |-> FALSE, lvl |-> Len(stack), on |-> NilImage])
              /\ UNCHANGED handles
         ELSE /\ stack' = Append([stack EXCEPT ![Len(stack)] =
                                     [f EXCEPT !.pc = "vipsDrawWatermark"]],
                                 [NewFrame(wmOptions(f),
                                           WatermarkSource(f.o.WatermarkImage.Buf),
                                           Len(handles) + 1, TRUE)
                                    EXCEPT !.obj = Len(objs) + 1])
              /\ objs' = Append(objs, 0)
              /\ handles' = Append(handles, 0)
              /\ calls' = Append(calls, [op |-> "load", arg |-> f.o.WatermarkImage.Buf,
                                         ok |-> TRUE, lvl |-> Len(stack), on |-> NilImage])
    /\ UNCHANGED cacheVars

\* C.int(x) of a float: the fraction is dropped
Trunc(a) == GoDiv(a[1], a[2])

\* WatermarkLeft with the watermark's width left out on the right
WatermarkLeftNoWidth(o, srcX, wmX) ==
    CASE o.HAlign = "left" ->
            IF o.Relative THEN Rat(o.HOffset * srcX, 100) ELSE Rat(o.HOffset, 1)
      [] o.HAlign = "right" ->
            IF o.Relative THEN Rat(100 * srcX - o.HOffset * srcX, 100)
                          ELSE Rat(srcX - o.HOffset, 1)
      [] o.HAlign = "centre" -> Rat(srcX - wmX, 2)
      [] OTHER -> <<0, 1>>

\* vipsDrawWatermark, lines 2212-2256: left, which stays 0 when HAlign is none
\* of the three horizontal positions
WatermarkLeft(o, srcX, wmX) ==
    CASE o.HAlign = "left" ->
            IF o.Relative THEN Rat(o.HOffset * srcX, 100) ELSE Rat(o.HOffset, 1)
      [] o.HAlign = "right" ->
            IF o.Relative THEN Rat(100 * srcX - o.HOffset * srcX - 100 * wmX, 100)
                          ELSE Rat(srcX - o.HOffset - wmX, 1)
      [] o.HAlign = "centre" -> Rat(srcX - wmX, 2)
      [] OTHER -> <<0, 1>>

\* vipsDrawWatermark, lines 2212-2256: top
WatermarkTop(o, srcY, wmY) ==
    CASE o.VAlign = "top" ->
            IF o.Relative THEN Rat(o.VOffset * srcY, 100) ELSE Rat(o.VOffset, 1)
      [] o.VAlign = "bottom" ->
            IF o.Relative THEN Rat(100 * srcY - o.VOffset * srcY - 100 * wmY, 100)
                          ELSE Rat(srcY - o.VOffset - wmY, 1)
      [] o.VAlign = "centre" -> Rat(srcY - wmY, 2)
      [] OTHER -> <<0, 1>>

\* vipsDrawWatermark after watermark.Process() has returned: its error is
\* returned, or the watermark is composited; the deferred
\* watermark.DecrementReferenceCount() runs on every path
vipsDrawWatermark ==
    /\ Len(stack) = 2
    /\ Top.pc = "return"
    /\ \E ok \in BOOLEAN :
         LET wm == Top
             f == stack[1]
             w0 == [f |-> f, handles |-> handles, calls |-> calls, objs |-> objs]
             call == [op |-> "watermark_image", arg |-> wm.Image, ok |-> ok,
                      lvl |-> 1, on |-> f.Image]
             left == WatermarkLeft(f.o.WatermarkImage, f.Xsize, wm.Xsize)
             top == WatermarkTop(f.o.WatermarkImage, f.Ysize, wm.Ysize)
             wp == [w0 EXCEPT !.f.left = left, !.f.top = top,
                              !.f.opts = [left |-> Trunc(left), top |-> Trunc(top)]]
             w1 == IF wm.err # NoErr
                   THEN [w0 EXCEPT !.f.err = wm.err]
                   ELSE IF ~ok
                   THEN [wp EXCEPT !.calls = Append(@, call), !.f.err = ErrEngine]
                   ELSE [Unref(wp, f.Image)
                           EXCEPT !.calls = Append(@, call),
                                  !.handles = Append(@, 0),
                                  !.f.Image = Fresh(wp),
                                  !.f.err = NoErr]
             w2 == DecrementReferenceCount(w1, wm.obj)
         IN  /\ stack' = << [w2.f EXCEPT !.pc = IF w2.f.err # NoErr THEN "return"
                                                ELSE StageAfter("watermarkWithImage")] >>
             /\ handles' = w2.handles
             /\ calls' = w2.calls
             /\ objs' = w2.objs
    /\ UNCHANGED cacheVars

\* vipsFlattenBackground(background)
vipsFlattenBackground(w, ok) ==
    IF w.f.Image = NilImage
    THEN [w EXCEPT !.f.err = ErrVipsImageNotValidPointer]
    ELSE IF w.f.alpha
    THEN ReplaceImage(w, "flatten", w.f.o.Background, ok, w.f.Xsize, w.f.Ysize)
    ELSE [w EXCEPT !.f.err = NoErr]

\* Flatten()
Flatten ==
    /\ stack # <<>>
    /\ Top.pc = "Flatten"
    /\ \E ok \in BOOLEAN :
         LET f == Top
             w == IF f.Type # "PNG" \/ f.o.Background = "black"
                  THEN World(f) ELSE vipsFlattenBackground(World(f), ok)
         IN  Commit(After(w, StageAfter("Flatten")))
    /\ UNCHANGED cacheVars

\* the deferred C.g_object_unref of vipsGamma: its argument is evaluated when
\* the defer statement runs, so it releases the handle img.Image held on entry
DeferredUnref(w, entry) == Unref(w, entry)

\* vipsGamma(Gamma)
vipsGamma(w, ok) ==
    LET entry == w.f.Image IN
    IF ~ok
    THEN DeferredUnref([Logged(w, "gamma", w.f.o.Gamma, FALSE) EXCEPT !.f.err = ErrEngine],
                       entry)
    ELSE LET l == Logged(w, "gamma", w.f.o.Gamma, TRUE)
             u == Unref(l, entry)
             n == [u EXCEPT !.handles = Append(@, 0), !.f.Image = Fresh(w),
                            !.f.err = NoErr]
         IN  DeferredUnref(n, entry)

\* applyGamma()
applyGamma ==
    /\ stack # <<>>
    /\ Top.pc = "applyGamma"
    /\ \E ok \in BOOLEAN :
         LET f == Top
             w == IF f.o.Gamma > 0 THEN vipsGamma(World(f), ok) ELSE World(f)
         IN  Commit([w EXCEPT !.f.pc = IF w.f.err # NoErr THEN "return"
                                       ELSE StageAfter("applyGamma")])
    /\ UNCHANGED cacheVars

(***************************************************************************)
(* The capability registry: SupportedImageTypes behind imageMutex, read by *)
(* MaxCallers goroutines that call IsImageTypeSupportedByVips again and    *)
(* again.                                                                  *)
(***************************************************************************)
MaxCallers == 2

Callers == 1..MaxCallers

\* a goroutine outside IsImageTypeSupportedByVips
IdleCaller ==
    [pc |-> "idle", t |-> "UNKNOWN", itShouldDiscover |-> FALSE, todo |-> {},
     supported |-> [Load |-> FALSE, Save |-> FALSE]]

\* the capability registry before its first use
IdleCache ==
    /\ cache = << >>
    /\ rw = [readers |-> {}, writer |-> 0, waiting |-> {}]
    /\ callers = [c \in Callers |-> IdleCaller]
    /\ discovered = 0

\* imageMutex.RLock() at the start of IsImageTypeSupportedByVips(t): it blocks
\* while a writer holds the mutex or is blocked in Lock
RLock(c) ==
    /\ callers[c].pc = "idle"
    /\ rw.writer = 0 /\ rw.waiting = {}
    /\ \E t \in {"JPEG", "MAGICK", "UNKNOWN"} :
         callers' = [callers EXCEPT ![c] = [IdleCaller EXCEPT !.pc = "len", !.t = t]]
    /\ rw' = [rw EXCEPT !.readers = @ \cup {c}]
    /\ UNCHANGED <<cache, discovered, pipelineVars>>

\* itShouldDiscover := len(SupportedImageTypes) == 0
checkLen(c) ==
    /\ callers[c].pc = "len"
    /\ LET empty == DOMAIN cache = {}
       IN  callers' = [callers EXCEPT ![c].itShouldDiscover = empty,
                                      ![c].pc = IF empty THEN "RUnlock" ELSE "read"]
    /\ UNCHANGED <<cache, rw, discovered, pipelineVars>>

\* if itShouldDiscover { imageMutex.RUnlock(); discoverSupportedImageTypes() }:
\* the RUnlock and the call
RUnlockToDiscover(c) ==
    /\ callers[c].pc = "RUnlock"
    /\ rw' = [rw EXCEPT !.readers = @ \ {c}]
    /\ callers' = [callers EXCEPT ![c].pc = "Lock"]
    /\ discovered' = discovered + 1
    /\ UNCHANGED <<cache, pipelineVars>>

\* discoverSupportedImageTypes: imageMutex.Lock() is called
Lock(c) ==
    /\ callers[c].pc = "Lock"
    /\ rw' = [rw EXCEPT !.waiting = @ \cup {c}]
    /\ callers' = [callers EXCEPT ![c].pc = "locking"]
    /\ UNCHANGED <<cache, discovered, pipelineVars>>

\* discoverSupportedImageTypes: imageMutex.Lock() returns, the range starts
Locked(c) ==
    /\ callers[c].pc = "locking"
    /\ rw.writer = 0 /\ rw.readers = {}
    /\ rw' = [rw EXCEPT !.writer = c, !.waiting = @ \ {c}]
    /\ callers' = [callers EXCEPT ![c].pc = "range", ![c].todo = ImageTypes]
    /\ UNCHANGED <<cache, discovered, pipelineVars>>

\* discoverSupportedImageTypes: one iteration of the range over ImageTypes
\* (a Go map is ranged over in no particular order)
discoverSupportedImageTypes(c) ==
    /\ callers[c].pc = "range"
    /\ callers[c].todo # {}
    /\ \E imageType \in callers[c].todo :
         /\ cache' = (imageType :> [Load |-> VipsIsTypeSupported(imageType),
                                    Save |-> VipsIsTypeSupportedSave(imageType)]) @@ cache
         /\ callers' = [callers EXCEPT ![c].todo = @ \ {imageType}]
    /\ UNCHANGED <<rw, discovered, pipelineVars>>

\* discoverSupportedImageTypes: imageMutex.Unlock() and the return
Unlock(c) ==
    /\ callers[c].pc = "range"
    /\ callers[c].todo = {}
    /\ rw' = [rw EXCEPT !.writer = 0]
    /\ callers' = [callers EXCEPT ![c].pc = "read"]
    /\ UNCHANGED <<cache, discovered, pipelineVars>>

\* supported, ok := SupportedImageTypes[t], and the result of the call
readMap(c) ==
    /\ callers[c].pc = "read"
    /\ LET t == callers[c].t
           supported == IF t \in DOMAIN cache THEN cache[t]
                        ELSE [Load |-> FALSE, Save |-> FALSE]
       IN  callers' = [callers EXCEPT ![c].supported = supported,
                                      ![c].pc = IF callers[c].itShouldDiscover
                                                THEN "return" ELSE "RUnlock2"]
    /\ UNCHANGED <<cache, rw, discovered, pipelineVars>>

\* if !itShouldDiscover { imageMutex.RUnlock() }
RUnlock(c) ==
    /\ callers[c].pc = "RUnlock2"
    /\ rw' = [rw EXCEPT !.readers = @ \ {c}]
    /\ callers' = [callers EXCEPT ![c].pc = "return"]
    /\ UNCHANGED <<cache, discovered, pipelineVars>>

\* IsImageTypeSupportedByVips returns
return(c) ==
    /\ callers[c].pc = "return"
    /\ callers' = [callers EXCEPT ![c].pc = "idle"]
    /\ UNCHANGED <<cache, rw, discovered, pipelineVars>>

InitCache ==
    /\ stack = << >>
    /\ handles = << >>
    /\ calls = << >>
    /\ objs = << >>
    /\ IdleCache

\* a step of IsImageTypeSupportedByVips in one of the goroutines
NextCache ==
    \/ \E c \in Callers : RLock(c)
    \/ \E c \in Callers : checkLen(c)
    \/ \E c \in Callers : RUnlockToDiscover(c)
    \/ \E c \in Callers : Lock(c)
    \/ \E c \in Callers : Locked(c)
    \/ \E c \in Callers : discoverSupportedImageTypes(c)
    \/ \E c \in Callers : Unlock(c)
    \/ \E c \in Callers : readMap(c)
    \/ \E c \in Callers : RUnlock(c)
    \/ \E c \in Callers : return(c)

SpecCache == InitCache /\ [][NextCache]_vars

(***************************************************************************)
(* The rotate/flip stage on its own, over every orientation input          *)
(***************************************************************************)
InitOrient ==
    /\ \E exif \in ExifCodes, angle \in Angles,
          flip \in BOOLEAN, flop \in BOOLEAN, noauto \in BOOLEAN, additive \in BOOLEAN :
         stack = << [ NewFrame([DefaultOptions EXCEPT !.Rotate = angle, !.Flip = flip,
                                                      !.Flop = flop, !.NoAutoRotate = noauto],
                               Source("JPEG", 8, 4, exif, FALSE), 1, additive)
                      EXCEPT !.pc = "rotateAndFlipImage" ] >>
    /\ handles = <<0>>
    /\ calls = << >>
    /\ objs = <<0>>
    /\ IdleCache

NextOrient == rotateAndFlipImage \/ rotateStep \/ flipStep \/ flopStep

SpecOrient == InitOrient /\ [][NextOrient]_vars

(***************************************************************************)
(* Process on a caller's image.  The caller's options differ from the zero *)
(* Options in at most MaxGroups of the option groups below, and the source *)
(* image is the default one or one of OtherSources.                        *)
(***************************************************************************)
MaxGroups == 2

GroupNames == {"orient", "size", "mode", "frame", "zoom", "interp", "effects",
               "watermark", "finish", "source"}

DefaultSource == Source("JPEG", 8, 4, 1, FALSE)

OtherSources ==
    { Source("JPEG", 8, 4, 6, FALSE),
      Source("WEBP", 8, 4, 1, FALSE),
      [Source("WEBP", 8, 4, 1, FALSE) EXCEPT !.vips = [major |-> 9, minor |-> 0]],
      Source("PNG", 8, 4, 1, TRUE) }

\* the values of a group: records of the option fields the group sets
GroupValues(g) ==
    CASE g = "orient" ->
           { [Rotate |-> r, Flip |-> fl, Flop |-> fp, NoAutoRotate |-> n] :
               r \in {D0, D90}, fl \in BOOLEAN, fp \in BOOLEAN, n \in BOOLEAN }
      [] g = "size" ->
           { [Width |-> w, Height |-> h] : w \in {0, 2, 16}, h \in {0, 2, 16} }
             \cup { [Width |-> DefaultSource.w, Height |-> DefaultSource.h] }
      [] g = "mode" ->
           { [Force |-> m = "force", Crop |-> m = "crop", Embed |-> m = "embed",
              Enlarge |-> m = "enlarge", MaintainAspect |-> m = "aspect"] :
               m \in {"none", "force", "crop", "embed", "enlarge", "aspect"} }
      [] g = "frame" ->
           { [SmartCrop |-> FALSE, Trim |-> FALSE, Extract |-> DefaultOptions.Extract],
             [SmartCrop |-> TRUE, Trim |-> FALSE, Extract |-> DefaultOptions.Extract],
             [SmartCrop |-> FALSE, Trim |-> TRUE, Extract |-> DefaultOptions.Extract],
             [SmartCrop |-> FALSE, Trim |-> FALSE,
              Extract |-> [Top |-> 1, Left |-> 0, Width |-> 2, Height |-> 2,
                           Relative |-> FALSE]],
             [SmartCrop |-> FALSE, Trim |-> FALSE,
              Extract |-> [Top |-> 1, Left |-> 0, Width |-> 0, Height |-> 0,
                           Relative |-> FALSE]] }
      [] g = "zoom" -> { [Zoom |-> z] : z \in {0, 1} }
      [] g = "interp" -> { [WindowSize |-> ws] : ws \in {2, 4} }
      [] g = "effects" ->
           { [GaussianBlur |-> [Sigma |-> b, MinAmpl |-> 0],
              Sharpen |-> [Sigma |-> sh[1], Y2 |-> sh[2], Y3 |-> sh[3]]] :
               b \in {0, 1}, sh \in {<<0, 0, 0>>, <<1, 1, 0>>, <<0, 0, 1>>, <<1, 0, 0>>} }
      [] g = "watermark" ->
           { [WatermarkText |-> t, WatermarkImage |-> wi] :
               t \in BOOLEAN,
               wi \in { DefaultOptions.WatermarkImage,
                        [DefaultOptions.WatermarkImage
                           EXCEPT !.Buf = "JPEG", !.Width = 2] } }
      [] g = "finish" ->
           { [Background |-> b, Gamma |-> ga, Type |-> t] :
               b \in {"black", "white"}, ga \in {0, 2}, t \in {"UNKNOWN", "GIF", "MAGICK"} }
      [] g = "source" -> {DefaultSource} \cup OtherSources

\* the value a group has when the caller leaves it alone
GroupDefault(g) ==
    IF g = "source" THEN DefaultSource
    ELSE [fld \in DOMAIN (CHOOSE v \in GroupValues(g) : TRUE) |-> DefaultOptions[fld]]

Pick(g, chosen) == IF g \in chosen THEN GroupValues(g) ELSE {GroupDefault(g)}

Init ==
    /\ \E chosen \in {c \in SUBSET GroupNames : Cardinality(c) <= MaxGroups} :
         \E orient \in Pick("orient", chosen), size \in Pick("size", chosen),
            mode \in Pick("mode", chosen), frame \in Pick("frame", chosen),
            zoom \in Pick("zoom", chosen), interp \in Pick("interp", chosen),
            effects \in Pick("effects", chosen), watermark \in Pick("watermark", chosen),
            finish \in Pick("finish", chosen), source \in Pick("source", chosen) :
              stack = << NewFrame(orient @@ size @@ mode @@ frame @@ zoom @@ interp
                                    @@ effects @@ watermark @@ finish @@ DefaultOptions,
                                  source, 1, TRUE) >>
    /\ handles = <<0>>
    /\ calls = << >>
    /\ objs = <<0>>
    /\ IdleCache

Next ==
    \/ Process
    \/ rotateAndFlipImage
    \/ rotateStep
    \/ flipStep
    \/ flopStep
    \/ refreshBuffer
    \/ plan
    \/ shrinkOnLoad
    \/ zoomImage
    \/ transformGate
    \/ shrinkStep
    \/ resizeStep
    \/ extractStep
    \/ effectsGate
    \/ blurStep
    \/ sharpenStep
    \/ watermarkWithText
    \/ watermarkWithImage
    \/ vipsDrawWatermark
    \/ Flatten
    \/ applyGamma

Spec == Init /\ [][Next]_vars

\* a Process call that has not returned goes on to its next step (the calling
\* goroutine keeps running): weak fairness of Next, with what enables Next
\* written out, the call in progress
SpecLive ==
    /\ Init
    /\ [][Next]_vars
    /\ \/ []<>(Len(stack) = 1 /\ stack[1].pc = "return")
       \/ []<><<Next>>_vars

(***************************************************************************)
(* The geometry calculator on its own: ScaleFactor, calculateShrink and    *)
(* calculateResidual called, in any order and any number of times, on an   *)
(* image of up to MaxDim x MaxDim with a requested size of up to MaxDim x  *)
(* MaxDim, and the planning step of Process on the same inputs.  After a   *)
(* call, given is the options the function was called with.  Only the      *)
(* planning step reads MaintainAspect.                                     *)
(***************************************************************************)
MaxDim == 4

\* the positions from which a function of the calculator is called
GeometryPcs == {"geometry", "ScaleFactor.return", "calculateShrink.return",
                "calculateResidual.return"}

\* img.ScaleFactor()
callScaleFactor ==
    /\ stack # <<>>
    /\ Top.pc \in GeometryPcs
    /\ LET f == Top
           sf == ScaleFactor(f.o, f.Xsize, f.Ysize)
       IN  Commit([World(f) EXCEPT !.f.given = f.o, !.f.o = sf.o, !.f.factor = sf.factor,
                                   !.f.pc = "ScaleFactor.return"])
    /\ UNCHANGED cacheVars

\* img.calculateShrink()
callCalculateShrink ==
    /\ stack # <<>>
    /\ Top.pc \in GeometryPcs
    /\ LET f == Top
           cs == calculateShrink(f.o, f.Xsize, f.Ysize)
       IN  Commit([World(f) EXCEPT !.f.given = f.o, !.f.o = cs.o, !.f.shrink = cs.shrink,
                                   !.f.pc = "calculateShrink.return"])
    /\ UNCHANGED cacheVars

\* img.calculateResidual()
callCalculateResidual ==
    /\ stack # <<>>
    /\ Top.pc \in GeometryPcs
    /\ LET f == Top
           cr == calculateResidual(f.o, f.Xsize, f.Ysize)
       IN  Commit([World(f) EXCEPT !.f.given = f.o, !.f.o = cr.o, !.f.residual = cr.residual,
                                   !.f.pc = "calculateResidual.return"])
    /\ UNCHANGED cacheVars

InitGeom ==
    /\ \E inWidth \in 1..MaxDim, inHeight \in 1..MaxDim,
          width \in 0..MaxDim, height \in 0..MaxDim,
          crop \in BOOLEAN, force \in BOOLEAN, enlarge \in BOOLEAN, aspect \in BOOLEAN,
          windowSize \in {2, 4}, pc \in {"geometry", "plan"} :
         /\ aspect => pc = "plan"
         /\ stack = << [ NewFrame([DefaultOptions EXCEPT !.Width = width,
                                                         !.Height = height,
                                                         !.Crop = crop, !.Force = force,
                                                         !.Enlarge = enlarge,
                                                         !.MaintainAspect = aspect,
                                                         !.WindowSize = windowSize],
                                  Source("JPEG", inWidth, inHeight, 1, FALSE), 1, TRUE)
                        EXCEPT !.pc = pc ] >>
    /\ handles = <<0>>
    /\ calls = << >>
    /\ objs = <<0>>
    /\ IdleCache

NextGeom == callScaleFactor \/ callCalculateShrink \/ callCalculateResidual \/ plan

SpecGeom == InitGeom /\ [][NextGeom]_vars

(***************************************************************************)
(* The framing of the transform stage on its own, from line 286 on, over   *)
(* every combination of Force and the options extractOrEmbedImage looks    *)
(* at.  A forced resize is one of scale 1; without Force there is none.    *)
(***************************************************************************)
\* Image.Extract(top, left, width, height): the Extract options it sets
ExtractOptions(top, left, width, height) ==
    [Top |-> IF top = 0 /\ left = 0 THEN -1 ELSE top, Left |-> left,
     Width |-> width, Height |-> height, Relative |-> FALSE]

InitFrame ==
    /\ \E gravity \in Gravities, force \in BOOLEAN,
          source \in {DefaultSource, Source("JPEG", 7, 5, 1, FALSE)},
          smartCrop \in BOOLEAN, crop \in BOOLEAN, embed \in BOOLEAN, trim \in BOOLEAN,
          extract \in { DefaultOptions.Extract,
                        [Top |-> 1, Left |-> 0, Width |-> 2, Height |-> 2,
                         Relative |-> FALSE],
                        [Top |-> 1, Left |-> 0, Width |-> 0, Height |-> 0,
                         Relative |-> FALSE],
                        ExtractOptions(0, 0, 2, 2) },
          size \in {<<0, 0>>, <<2, 2>>, <<8, 4>>, <<16, 16>>, <<16, 3>>} :
         stack = << [ NewFrame([DefaultOptions EXCEPT !.Gravity = gravity,
                                                      !.SmartCrop = smartCrop,
                                                      !.Crop = crop, !.Embed = embed,
                                                      !.Trim = trim, !.Extract = extract,
                                                      !.Width = size[1],
                                                      !.Height = size[2],
                                                      !.Force = force],
                               source, 1, TRUE)
                      EXCEPT !.pc = "vipsResize",
                             !.residual = IF force THEN <<1, 1>> ELSE <<0, 1>> ] >>
    /\ handles = <<0>>
    /\ calls = << >>
    /\ objs = <<0>>
    /\ IdleCache

NextFrame == resizeStep \/ extractStep

SpecFrame == InitFrame /\ [][NextFrame]_vars

(***************************************************************************)
(* The placement of an image watermark on its own: vipsDrawWatermark from  *)
(* the return of watermark.Process(), over the alignments, offsets and     *)
(* sizes below.  The positions are the names of the Position constants.    *)
(***************************************************************************)
PlaceSizes == { [srcX |-> 8, srcY |-> 4, wmX |-> 2, wmY |-> 1],
                [srcX |-> 7, srcY |-> 5, wmX |-> 2, wmY |-> 2],
                [srcX |-> 2, srcY |-> 1, wmX |-> 4, wmY |-> 2],
                [srcX |-> 1000, srcY |-> 800, wmX |-> 100, wmY |-> 50] }

PlaceOffsets == {0, 3, 5, 10}

InitPlace ==
    /\ \E size \in PlaceSizes, relative \in BOOLEAN, failed \in BOOLEAN,
          hAlign \in {"left", "right", "centre", "top"},
          vAlign \in {"top", "bottom", "centre", "left"},
          hOffset \in PlaceOffsets, vOffset \in PlaceOffsets :
         LET f == [ NewFrame([DefaultOptions EXCEPT
                                 !.WatermarkImage =
                                     [Buf |-> "JPEG", Width |-> 2,
                                      Relative |-> relative,
                                      HAlign |-> hAlign, VAlign |-> vAlign,
                                      HOffset |-> hOffset, VOffset |-> vOffset]],
                             Source("JPEG", size.srcX, size.srcY, 1, FALSE), 1, TRUE)
                    EXCEPT !.pc = "vipsDrawWatermark" ]
             wm == [ NewFrame(wmOptions(f), Source("JPEG", size.wmX, size.wmY, 1, FALSE),
                              2, TRUE)
                     EXCEPT !.pc = "return", !.obj = 2,
                            !.err = IF failed THEN ErrEngine ELSE NoErr ]
         IN  stack = <<f, wm>>
    /\ handles = <<0, 0>>
    /\ calls = << [op |-> "load", arg |-> "JPEG", ok |-> TRUE, lvl |-> 1, on |-> NilImage] >>
    /\ objs = <<0, 0>>
    /\ IdleCache

NextPlace == vipsDrawWatermark

SpecPlace == InitPlace /\ [][NextPlace]_vars

(***************************************************************************)
(* Image.Metadata and Image.Size of the method DSL, called on an image of  *)
(* any of the sources.  The stack holds one frame per Go call in progress; *)
(* the runtime ends the program when the goroutine's stack is exhausted,   *)
(* which MaxDepth calls stand for.                                         *)
(***************************************************************************)
MaxDepth == 12

\* Image.Size, line 286: m, err := i.Metadata()
ImageSize ==
    /\ stack # << >>
    /\ Top.pc = "Image.Size"
    /\ stack' = Append(stack, [Top EXCEPT !.pc = "Image.Metadata"])
    /\ UNCHANGED <<handles, calls, objs, cacheVars>>

\* Image.Metadata, line 263: return i.Metadata(), the method of Image itself
ImageMetadata ==
    /\ stack # << >>
    /\ Top.pc = "Image.Metadata"
    /\ Len(stack) < MaxDepth
    /\ stack' = Append(stack, [Top EXCEPT !.pc = "Image.Metadata"])
    /\ UNCHANGED <<handles, calls, objs, cacheVars>>

\* the call of line 263 finds the goroutine's stack exhausted
stackOverflow ==
    /\ stack # << >>
    /\ Top.pc = "Image.Metadata"
    /\ Len(stack) = MaxDepth
    /\ stack' = << [stack[1] EXCEPT !.pc = "fatal error: stack overflow"] >>
    /\ UNCHANGED <<handles, calls, objs, cacheVars>>

InitMeta ==
    /\ \E source \in {DefaultSource} \cup OtherSources,
          pc \in {"Image.Size", "Image.Metadata"} :
         stack = << [NewFrame(DefaultOptions, source, 1, TRUE) EXCEPT !.pc = pc] >>
    /\ handles = <<0>>
    /\ calls = << >>
    /\ objs = <<0>>
    /\ IdleCache

NextMeta == ImageSize \/ ImageMetadata \/ stackOverflow

\* a call in progress goes on
SpecMeta == InitMeta /\ [][NextMeta]_vars /\ WF_vars(NextMeta)

(***************************************************************************)
(* Save, vipsRotate and vipsGamma called one after another on one image:   *)
(* an image NewVipsImage has returned, or one whose handle is nil.  The    *)
(* caller stops after MaxSaveCalls engine calls.  A handle h is released   *)
(* when handles[h] > 0; what the engine does with a released handle is not *)
(* defined, so a call on one succeeds or fails.                            *)
(***************************************************************************)
MaxSaveCalls == 3

\* vipsPreSave(o), lines 1639-1688, with OutputICC empty: if the engine
\* supports the colourspace of the image, convert it into a new handle
vipsPreSave(w, space, ok) ==
    IF w.f.Image = NilImage
    THEN [w EXCEPT !.f.err = ErrVipsImageNotValidPointer]
    ELSE IF space
    THEN ReplaceImage(w, "colourspace", "sRGB", ok, w.f.Xsize, w.f.Ysize)
    ELSE [w EXCEPT !.f.err = NoErr]

\* vipsSave(o), lines 1690-1772: nil check, vipsPreSave, the type check, the
\* encoder; on success the buffer is stored and the handle is unreffed, and
\* img.Image keeps pointing at it
vipsSave(w, space, okSpace, ok) ==
    IF w.f.Image = NilImage
    THEN [w EXCEPT !.f.err = ErrVipsImageNotValidPointer]
    ELSE LET p == vipsPreSave(w, space, okSpace) IN
         IF p.f.err # NoErr
         THEN p
         ELSE IF p.f.o.Type # "UNKNOWN" /\ ~IsTypeSupportedSave(p.f.o.Type)
         THEN [p EXCEPT !.f.err = ErrCannotSave]
         ELSE IF ~ok
         THEN [p EXCEPT !.calls = Append(@, [Call("save", p.f.o.Type, FALSE, p)
                                               EXCEPT !.on = p.f.Image]),
                        !.f.err = ErrEngine]
         ELSE Unref([p EXCEPT !.calls = Append(@, [Call("save", p.f.o.Type, TRUE, p)
                                                     EXCEPT !.on = p.f.Image]),
                              !.f.Buffer = [w |-> p.f.Xsize, h |-> p.f.Ysize,
                                            of |-> p.f.Image],
                              !.f.err = NoErr],
                    p.f.Image)

\* an image at rest, and a caller that goes on
AtRest ==
    /\ Len(stack) = 1
    /\ Top.pc = "return"
    /\ Len(calls) < MaxSaveCalls

\* VipsImage.Save(), lines 210-230
Save ==
    /\ AtRest
    /\ \E space \in BOOLEAN, okSpace \in BOOLEAN, ok \in BOOLEAN :
         Commit(vipsSave(World(Top), space, okSpace, ok))
    /\ UNCHANGED cacheVars

\* vipsRotate(angle), lines 1383-1401
callVipsRotate ==
    /\ AtRest
    /\ \E angle \in {D90, D180}, ok \in BOOLEAN :
         Commit(vipsRotate(World(Top), angle, ok))
    /\ UNCHANGED cacheVars

\* vipsGamma(Gamma), lines 2306-2320: no nil check.  The engine rejects a
\* NULL input, and g_object_unref(NULL) releases nothing.
callVipsGamma ==
    /\ AtRest
    /\ \E ok \in BOOLEAN :
         LET w == World(Top)
         IN  Commit(IF w.f.Image = NilImage
                    THEN [Logged(w, "gamma", w.f.o.Gamma, FALSE) EXCEPT !.f.err = ErrEngine]
                    ELSE vipsGamma(w, ok))
    /\ UNCHANGED cacheVars

InitSave ==
    /\ \E source \in {DefaultSource} \cup OtherSources,
          image \in {1, NilImage},
          type \in {"UNKNOWN", "TIFF", "GIF"} :
         stack = << [NewFrame([DefaultOptions EXCEPT !.Type = type, !.Gamma = 2],
                              source, image, TRUE)
                     EXCEPT !.pc = "return"] >>
    /\ handles = <<0>>
    /\ calls = << >>
    /\ objs = <<0>>
    /\ IdleCache

NextSave == Save \/ callVipsRotate \/ callVipsGamma

SpecSave == InitSave /\ [][NextSave]_vars

(***************************************************************************)
(* calculateCrop on its own, called with the sizes and gravities below;    *)
(* the pair it returns is kept in the frame's crop field.                  *)
(***************************************************************************)
CropInSizes == { <<1000, 800>>, <<8, 4>>, <<7, 5>>, <<2, 1>> }

CropOutSizes == { <<500, 400>>, <<2, 2>>, <<4, 3>>, <<16, 16>> }

callCalculateCrop ==
    /\ stack # << >>
    /\ Top.pc = "calculateCrop"
    /\ LET f == Top
       IN  stack' = << [f EXCEPT !.crop = calculateCrop(f.Xsize, f.Ysize, f.o.Width,
                                                        f.o.Height, f.o.Gravity),
                                 !.pc = "calculateCrop.return"] >>
    /\ UNCHANGED <<handles, calls, objs, cacheVars>>

InitCrop ==
    /\ \E in \in CropInSizes, out \in CropOutSizes, gravity \in Gravities :
         stack = << [ NewFrame([DefaultOptions EXCEPT !.Width = out[1], !.Height = out[2],
                                                      !.Gravity = gravity, !.Crop = TRUE],
                               Source("JPEG", in[1], in[2], 1, FALSE), 1, TRUE)
                      EXCEPT !.pc = "calculateCrop" ] >>
    /\ handles = <<0>>
    /\ calls = << >>
    /\ objs = <<0>>
    /\ IdleCache

NextCrop == callCalculateCrop

SpecCrop == InitCrop /\ [][NextCrop]_vars

(***************************************************************************)
(* The constructors NewVipsImage and NewImage, called one after another    *)
(* with the buffers below until MaxPooled objects have been taken from the *)
(* pools.  objs has one entry per object taken from vipsImagePool or       *)
(* ImagePool; the stack holds the image the last call returned, and is     *)
(* empty when it returned nil.                                             *)
(***************************************************************************)
MaxPooled == 4

\* a buffer: its length is zero or not, the type vipsImageType finds in it,
\* and whether vips_init_image decodes it
Buffers ==
    { [empty |-> TRUE, type |-> "UNKNOWN", decodes |-> FALSE],
      [empty |-> FALSE, type |-> "UNKNOWN", decodes |-> FALSE],
      [empty |-> FALSE, type |-> "JPEG", decodes |-> FALSE],
      [empty |-> FALSE, type |-> "JPEG", decodes |-> TRUE],
      [empty |-> FALSE, type |-> "PNG", decodes |-> TRUE],
      [empty |-> FALSE, type |-> "WEBP", decodes |-> TRUE] }

\* Load(buf) and vipsRead(buf): the error returned, and whether the engine
\* was asked to decode
Load(buf) ==
    IF buf.empty THEN [err |-> "Image buffer is empty", engine |-> FALSE]
    ELSE IF buf.type = "UNKNOWN" THEN [err |-> "Unsupported image format", engine |-> FALSE]
    ELSE IF ~buf.decodes THEN [err |-> ErrEngine, engine |-> TRUE]
    ELSE [err |-> NoErr, engine |-> TRUE]

\* NewVipsImage(buf, opt) called with taken objects already out of the pools
\* (the VipsImage it takes is the next one): ret := AquireVipsImage();
\* ret.Load(buf); on an error return nil, err
Construct(buf, taken) ==
    LET r == Load(buf)
        call == [op |-> "load", arg |-> buf.type, ok |-> r.err = NoErr, lvl |-> 1,
                 on |-> NilImage]
    IN  /\ objs' = objs \o (IF taken = 0 THEN <<0>> ELSE <<0, 0>>)
        /\ calls' = IF r.engine THEN Append(calls, call) ELSE calls
        /\ IF r.err # NoErr
           THEN stack' = << >> /\ UNCHANGED handles
           ELSE /\ handles' = Append(handles, 0)
                /\ stack' = << [NewFrame(DefaultOptions,
                                         Source(buf.type, 8, 4, 1, buf.type = "PNG"),
                                         Len(handles) + 1, TRUE)
                                  EXCEPT !.obj = Len(objs) + taken + 1] >>

\* NewVipsImage(buf, opt), lines 25-33
NewVipsImage ==
    /\ Len(objs) + 1 <= MaxPooled
    /\ \E buf \in Buffers : Construct(buf, 0)
    /\ UNCHANGED cacheVars

\* NewImage(buf, o): ret := AquireImage(); ret.VipsImage, err =
\* NewVipsImage(buf, o); on an error return nil, err
NewImage ==
    /\ Len(objs) + 2 <= MaxPooled
    /\ \E buf \in Buffers : Construct(buf, 1)
    /\ UNCHANGED cacheVars

InitNew ==
    /\ stack = << >>
    /\ handles = << >>
    /\ calls = << >>
    /\ objs = << >>
    /\ IdleCache

NextNew == NewVipsImage \/ NewImage

SpecNew == InitNew /\ [][NextNew]_vars

(***************************************************************************)
(* Properties                                                              *)
(***************************************************************************)
\* the calls of the log made by the Process invocation at nesting level lvl
CallsAt(lvl) == {k \in 1..Len(calls) : calls[k].lvl = lvl}

\* a step replaces the working handle of the invocation at level lvl
Replaces(lvl) ==
    /\ lvl <= Len(stack) /\ lvl <= Len(stack')
    /\ stack[lvl].Image # NilImage
    /\ stack'[lvl].Image # stack[lvl].Image

\* C1: every step of a Process run that replaces the working handle (the
\* gamma stage included) leaves the superseded handle released exactly once,
\* and no engine handle is ever released twice.
C1_SupersededReleasedOnce ==
    [][ /\ \A h \in 1..Len(handles') : handles'[h] <= 1
        /\ \A lvl \in 1..2 : Replaces(lvl) => handles'[stack[lvl].Image] = 1 ]_vars

\* C2: when a stage of Process has failed and the error is back at the caller,
\* every engine handle of the invocation (the working handle and the handle of
\* a nested watermark image) has been released.
C2_ReleasedWhenErrorReturned ==
    ( /\ Len(stack) = 1
      /\ stack[1].pc = "return"
      /\ stack[1].err # NoErr
      /\ \E k \in 1..Len(calls) : ~calls[k].ok )
    => \A h \in 1..Len(handles) : handles[h] >= 1

\* the place of an engine operation in the stage order of the pipeline
\* (0: the operation belongs to none of the ordered stages)
StageRank(op) ==
    CASE op \in {"rotate", "flip"} -> 1
      [] op = "shrink" -> 2
      [] op = "resize" -> 3
      [] op \in {"smartcrop", "extract", "embed", "trim"} -> 4
      [] op = "blur" -> 5
      [] op = "sharpen" -> 6
      [] op = "watermark_text" -> 7
      [] op \in {"load", "watermark_image"} -> 8
      [] op = "flatten" -> 9
      [] op = "gamma" -> 10
      [] OTHER -> 0

\* C3: in every Process run the engine operations are made in the order
\* rotate/flip, shrink, resize, framing, blur, sharpen, text watermark, image
\* watermark, flatten, gamma (each call a step adds to the log is of no earlier
\* stage than the calls its run made before), and no rotate or flip is made
\* once the sizes (factor, shrink, residual) have been computed.
C3_StageOrder ==
    [][ /\ SubSeq(calls', 1, Len(calls)) = calls
        /\ \A k \in (Len(calls) + 1)..Len(calls') :
             /\ \A i \in 1..(k - 1) :
                  (calls'[i].lvl = calls'[k].lvl
                     /\ StageRank(calls'[i].op) > 0 /\ StageRank(calls'[k].op) > 0)
                  => StageRank(calls'[i].op) <= StageRank(calls'[k].op)
             /\ calls'[k].op \in {"rotate", "flip"} => ~Top.planned ]_vars

\* a run that rotated, computed its sizes and reached the gamma stage
C3_Witness ==
    \E i, j \in CallsAt(1) :
        /\ i < j
        /\ calls[i].op = "rotate" /\ calls[i].ok
        /\ calls[j].op = "gamma" /\ calls[j].ok
        /\ stack[1].planned

Reloads == {"shrink_jpeg", "shrink_webp"}

C5_FirstFailureEndsStage ==
    \A k \in 1..Len(calls) :
        (calls[k].op \in {"rotate", "flip"} /\ ~calls[k].ok)
        => /\ \A j \in CallsAt(calls[k].lvl) : j <= k
           /\ LET f == stack[calls[k].lvl]
              IN  f.pc \notin {"rotate", "flip", "flop"}
                    => f.pc = "return" /\ f.err = ErrEngine

\* C6: discoverSupportedImageTypes is called at most once, however many
\* goroutines call IsImageTypeSupportedByVips.
C6_DiscoveredAtMostOnce == discovered <= 1

\* C7: no goroutine is about to read SupportedImageTypes while another one
\* is writing it in discoverSupportedImageTypes.
C7_NoReadWhileWriting ==
    \A a, b \in Callers :
        ~(a # b /\ callers[a].pc = "read"
            /\ callers[b].pc = "range" /\ callers[b].todo # {})

\* C8: in additive mode the rotation the resolver gives, and the angle of
\* every rotate call, is one of 0, 90, 180, 270.
C8_AdditiveRotationCardinal ==
    \A lvl \in 1..Len(stack) :
        stack[lvl].additive =>
            /\ stack[lvl].rotation \in Angles
            /\ \A k \in CallsAt(lvl) : calls[k].op = "rotate" => calls[k].arg \in Angles

\* the orientation table: EXIF code -> <<rotation, flip>>
OrientationTable ==
    << <<0, FALSE>>, <<0, TRUE>>, <<180, FALSE>>, <<180, TRUE>>,
       <<90, TRUE>>, <<90, FALSE>>, <<270, TRUE>>, <<270, FALSE>> >>

\* the frame has the result of calculateRotationAndFlip
Resolved(f) == f.pc \in {"rotate", "flip", "flop", "getImageBuffer"}

\* C9: with user rotation 0 the resolver gives the table's rotation and flip
\* for the codes 1..8 and (0, no flip) for any other code; in additive mode
\* EXIF code 6 with user rotation 90 gives rotation 180.
C9_OrientationTable ==
    \A lvl \in 1..Len(stack) :
        LET f == stack[lvl] IN
        Resolved(f) =>
            /\ f.angle = 0 =>
                 <<f.rotation, f.flip>> =
                     IF f.exif \in 1..8 THEN OrientationTable[f.exif] ELSE <<0, FALSE>>
            /\ (f.additive /\ f.exif = 6 /\ f.angle = 90) => f.rotation = 180

\* the resolver has mapped code 7 with user rotation 0, and code 6 with user
\* rotation 90 in additive mode
C9_Witness ==
    \E lvl \in 1..Len(stack) :
        LET f == stack[lvl] IN
        /\ Resolved(f)
        /\ \/ f.exif = 7 /\ f.angle = 0 /\ f.rotation = 270 /\ f.flip
           \/ f.exif = 6 /\ f.angle = 90 /\ f.additive /\ f.rotation = 180

\* C10: when NoAutoRotate is false, the EXIF code is a flip code (2, 4, 5, 7)
\* and the caller did not ask for Flip, the rotate/flip stage that ended
\* without error has made the engine's flip call.
C10_AutoFlip ==
    \A lvl \in 1..Len(stack) :
        LET f == stack[lvl] IN
        ( /\ f.pc = "getImageBuffer"
          /\ ~f.given.NoAutoRotate /\ ~f.given.Flip
          /\ f.exif \in {2, 4, 5, 7} )
        => \E k \in CallsAt(lvl) : calls[k].op = "flip" /\ calls[k].arg = "Vertical"

\* a function of the geometry calculator has returned to the frame at level
\* lvl: given is what it was called with
Returned(lvl, fn) == stack[lvl].pc = fn \o ".return"

\* the two ratios of a request with both dimensions set
XFactor(f) == Rat(f.Xsize, f.given.Width)
YFactor(f) == Rat(f.Ysize, f.given.Height)

C12_FactorAtLeastOne ==
    \A lvl \in 1..Len(stack) :
        LET f == stack[lvl]  g == f.given IN
        (Returned(lvl, "ScaleFactor") /\ ~g.Enlarge /\ ~g.Force) =>
            ~RatLess(f.factor, <<1, 1>>)

\* the integral shrink and affine resize calls of the invocation at level lvl
ResizeCalls(lvl) == {k \in CallsAt(lvl) : calls[k].op \in {"shrink", "resize"}}

\* what the enlargement guard of Process is to leave behind
Guarded(lvl) ==
    LET f == stack[lvl] IN
    /\ f.o.Width = f.inWidth /\ f.o.Height = f.inHeight
    /\ f.factor = <<1, 1>>
    /\ ResizeCalls(lvl) = {}

C14_BareSizeForces ==
    \A lvl \in 1..Len(stack) :
        LET f == stack[lvl]  g == f.given IN
        ( /\ f.pc = "shouldTransformImage"
          /\ ~g.MaintainAspect /\ ~g.Force /\ ~g.Crop /\ ~g.Embed /\ ~g.Enlarge
          /\ g.Rotate = D0
          /\ (g.Width > 0 \/ g.Height > 0) )
        => f.o.Force

\* C15: calculateShrink returns an integer of at least 1: with n/d the value
\* of ScaleFactor, it is floor(3n / (d * windowSize)) when n/d >= 2 and the
\* window size exceeds 3, floor(n / d) otherwise, and 1 when that is below 1
\* or when the enlargement guard applies.
C15_ShrinkFormula ==
    \A lvl \in 1..Len(stack) :
        LET f == stack[lvl]
            g == f.given
            guard == ~g.Enlarge /\ ~g.Force /\ f.Xsize < g.Width /\ f.Ysize < g.Height
            n == ScaleFactor(g, f.Xsize, f.Ysize).factor[1]
            d == ScaleFactor(g, f.Xsize, f.Ysize).factor[2]
            floor == IF n >= 2 * d /\ g.WindowSize > 3
                     THEN (3 * n) \div (d * g.WindowSize)
                     ELSE n \div d
        IN  Returned(lvl, "calculateShrink") =>
                /\ f.shrink \in Nat /\ f.shrink >= 1
                /\ f.shrink = IF guard \/ floor < 1 THEN 1 ELSE floor

\* calculateShrink has returned 3 for a factor of 4 and a window of 4
C15_Witness ==
    \E lvl \in 1..Len(stack) :
        LET f == stack[lvl]  g == f.given
            factor == ScaleFactor(g, f.Xsize, f.Ysize).factor
        IN  /\ Returned(lvl, "calculateShrink")
            /\ g.WindowSize = 4 /\ factor = <<4, 1>> /\ f.shrink = 3

\* calculateResidual has returned for options for which a resize is computed:
\* the enlargement guard did not apply
ResidualComputed(lvl) ==
    LET f == stack[lvl]  g == f.given IN
    /\ Returned(lvl, "calculateResidual")
    /\ ~(~g.Enlarge /\ ~g.Force /\ f.Xsize < g.Width /\ f.Ysize < g.Height)

TransformPcs == {"shrinkImage", "vipsResize", "extractOrEmbedImage"}
TransformOps == {"shrink", "resize", "smartcrop", "extract", "embed", "trim"}
TransformCalls(lvl) == {k \in CallsAt(lvl) : calls[k].op \in TransformOps}

\* the conditions C17 lists, on the options and the live image of a frame
GateListed(f) ==
    \/ f.o.Force
    \/ (f.o.Width > 0 /\ f.o.Width < f.Xsize) \/ (f.o.Height > 0 /\ f.o.Height < f.Ysize)
    \/ f.o.Extract # DefaultOptions.Extract
    \/ (f.o.Enlarge /\ (f.o.Width > f.Xsize \/ f.o.Height > f.Ysize))
    \/ f.o.Trim

\* the caller asked for nothing but a crop to the size the image has
OnlyCropAtTargetSize(f) ==
    /\ f.planned
    /\ f.given = [DefaultOptions EXCEPT !.Crop = TRUE, !.Width = f.inWidth,
                                        !.Height = f.inHeight]

\* C17: Process makes a transform-stage engine call (shrink, resize,
\* smartcrop, crop, embed, trim, extract) only inside the transform stage, and
\* enters that stage only from the gate and only when Force is set, or a
\* requested dimension is smaller than the live image, or an extract region
\* is set, or Enlarge is set and a requested dimension exceeds the live
\* image, or Trim is set; a request with only Crop on an image already at
\* the target size makes no transform-stage call.
C17_TransformGate ==
    /\ [][ /\ \A k \in (Len(calls) + 1)..Len(calls') :
                calls'[k].op \in TransformOps => Top.pc \in TransformPcs
           /\ ( /\ stack # << >> /\ Len(stack') = Len(stack)
                /\ Top.pc \notin TransformPcs
                /\ stack'[Len(stack')].pc \in TransformPcs )
              => (Top.pc = "shouldTransformImage" /\ GateListed(Top)) ]_vars
    /\ [](\A lvl \in 1..Len(stack) :
            OnlyCropAtTargetSize(stack[lvl]) => TransformCalls(lvl) = {})

\* a crop of the 8x4 source to 8x4 has come to its end without a
\* transform-stage call
C17_Witness ==
    /\ Len(stack) = 1
    /\ stack[1].pc = "return" /\ stack[1].err = NoErr
    /\ OnlyCropAtTargetSize(stack[1])
    /\ stack[1].given.Width = 8 /\ stack[1].given.Height = 4
    /\ TransformCalls(1) = {}

\* the framing calls a step adds to the log (the encoding of an extracted
\* area apart)
Dispatched ==
    {k \in (Len(calls) + 1)..Len(calls') :
        calls'[k].op \in {"smartcrop", "extract", "embed", "trim"}}

\* the first of the framing operations whose condition holds, in the order
\* smartcrop > crop > embed > trim > explicit extract
FirstMatching(o) ==
    IF o.Gravity = "smart" \/ o.SmartCrop THEN "smartcrop"
    ELSE IF o.Crop THEN "crop"
    ELSE IF o.Embed THEN "embed"
    ELSE IF o.Trim THEN "trim"
    ELSE IF o.Extract # DefaultOptions.Extract THEN "extract"
    ELSE "none"

\* the framing calls of a step are those of the operation named first: one
\* smartcrop; one extract of the crop area; one embed; a trim and then at
\* most one extract; one extract at the explicit offset; or none
DispatchIs(first, f) ==
    LET ops == {calls'[k].op : k \in Dispatched} IN
    /\ first # "trim" => Cardinality(Dispatched) <= 1
    /\ CASE first = "smartcrop" -> ops \subseteq {"smartcrop"}
         [] first = "crop" ->
              /\ ops \subseteq {"extract"}
              /\ \A k \in Dispatched :
                    /\ calls'[k].arg.width = IntMin(f.Xsize, f.o.Width)
                    /\ calls'[k].arg.height = IntMin(f.Ysize, f.o.Height)
         [] first = "embed" -> ops \subseteq {"embed"}
         [] first = "trim" ->
              /\ ops \subseteq {"trim", "extract"}
              /\ Cardinality(Dispatched) <= 2
              /\ \A k \in Dispatched :
                    calls'[k].op = "extract" =>
                        (k - 1 \in Dispatched /\ calls'[k - 1].op = "trim")
         [] first = "extract" ->
              /\ ops \subseteq {"extract"}
              /\ \A k \in Dispatched :
                    /\ calls'[k].arg.left = f.o.Extract.Left
                    /\ calls'[k].arg.top = f.o.Extract.Top
         [] OTHER -> ops = {}

\* C18: each time extractOrEmbedImage runs, at most one of smart crop, gravity
\* crop, embed, trim-then-extract and explicit extract is dispatched, and it
\* is the first whose condition holds in the order smartcrop > crop > embed >
\* trim > explicit extract.
C18_FirstMatchWins ==
    [][ (stack # << >> /\ Top.pc = "extractOrEmbedImage")
        => DispatchIs(FirstMatching(Top.o), Top) ]_vars

\* with Crop, Embed, Trim and an extract region all set, the dispatch made the
\* one extract call of the crop, and nothing else
C18_Witness ==
    /\ Len(stack) = 1
    /\ LET g == stack[1].given IN
       /\ stack[1].pc = StageAfter("shouldTransformImage")
       /\ g.Gravity = "centre" /\ ~g.SmartCrop /\ g.Crop /\ g.Embed /\ g.Trim
       /\ g.Extract.Width = 2 /\ g.Width = 2 /\ g.Height = 2
    /\ {calls[k].op : k \in 1..Len(calls)} \ {"save"} = {"extract"}
    /\ calls[1].arg.left = 3 /\ calls[1].arg.top = 1

\* C19: when the caller asks for an extract region (Extract.Top or
\* Extract.Left nonzero) with Extract.Width or Extract.Height zero, a Process
\* run in which no engine call fails returns the error 'extract area
\* width/height params are required' and makes no extract call.
C19_MissingExtractSize ==
    \A lvl \in 1..Len(stack) :
        LET f == stack[lvl]  g == f.given IN
        ( /\ f.pc = "return"
          /\ g.Extract.Top # 0 \/ g.Extract.Left # 0
          /\ g.Extract.Width = 0 \/ g.Extract.Height = 0
          /\ \A k \in CallsAt(lvl) : calls[k].ok
          /\ f.err \in {NoErr, ErrExtractAreaParamsRequired} )
        => /\ f.err = ErrExtractAreaParamsRequired
           /\ \A k \in CallsAt(lvl) : calls[k].op # "extract"

\* C20: once Process has called ScaleFactor on a source with positive
\* dimensions, Options.Width and Options.Height are both at least 1, for
\* every requested size (a dimension left at 0 included) and every source
\* aspect ratio.
C20_SizePositive ==
    \A lvl \in 1..Len(stack) :
        LET f == stack[lvl] IN
        (f.planned /\ f.inWidth >= 1 /\ f.inHeight >= 1) =>
            (f.o.Width >= 1 /\ f.o.Height >= 1)

\* vipsDrawWatermark has computed the placement for the sizes size: the
\* image has the source size, and the composite call is the last of the log
Placed(size) ==
    /\ Len(stack) = 1 /\ Len(calls) > 0
    /\ calls[Len(calls)].op = "watermark_image"
    /\ size.srcX = stack[1].Xsize /\ size.srcY = stack[1].Ysize

\* i is x without its fraction
Truncated(i, x) ==
    IF x[1] >= 0 THEN i * x[2] <= x[1] /\ x[1] < (i + 1) * x[2]
                 ELSE (i - 1) * x[2] < x[1] /\ x[1] <= i * x[2]

\* C21: in relative mode left is (hOffset/100)*srcX for Left,
\* srcX - (hOffset/100)*srcX - wmX for Right and (srcX - wmX)/2 for Center,
\* and top likewise with srcY, wmY, vOffset and Top/Bottom/Center; in absolute
\* mode the offsets are taken as they are.  The equations are multiplied out
\* (left = l[1]/l[2]); the engine is given left and top without their fraction.
C21_WatermarkPlacement ==
    \A size \in PlaceSizes :
        Placed(size) =>
            LET f == stack[1]
                o == f.given.WatermarkImage
                l == f.left
                t == f.top
                h == IF o.Relative THEN o.HOffset * size.srcX ELSE 100 * o.HOffset
                v == IF o.Relative THEN o.VOffset * size.srcY ELSE 100 * o.VOffset
            IN  /\ o.HAlign = "left" => 100 * l[1] = h * l[2]
                /\ o.HAlign = "right" =>
                      100 * l[1] = (100 * size.srcX - h - 100 * size.wmX) * l[2]
                /\ o.HAlign = "centre" => 2 * l[1] = (size.srcX - size.wmX) * l[2]
                /\ o.VAlign = "top" => 100 * t[1] = v * t[2]
                /\ o.VAlign = "bottom" =>
                      100 * t[1] = (100 * size.srcY - v - 100 * size.wmY) * t[2]
                /\ o.VAlign = "centre" => 2 * t[1] = (size.srcY - size.wmY) * t[2]
                /\ Truncated(f.opts.left, l) /\ Truncated(f.opts.top, t)

\* the example: 1000x800, watermark 100x50, Right 10%, Bottom 5%, relative,
\* placed at left 800, top 710
C21_Witness ==
    /\ Placed([srcX |-> 1000, srcY |-> 800, wmX |-> 100, wmY |-> 50])
    /\ LET o == stack[1].given.WatermarkImage IN
       /\ o.Relative /\ o.HAlign = "right" /\ o.HOffset = 10
       /\ o.VAlign = "bottom" /\ o.VOffset = 5
    /\ stack[1].opts = [left |-> 800, top |-> 710]

\* C22: on every way out of the image-watermark stage the nested watermark
\* image is released exactly once: when vipsDrawWatermark returns after
\* watermark.Process(), the pooled object of the watermark has gone back to
\* the pool once and its engine handle has been released once; when the load
\* of the watermark fails, the pooled object taken for it has gone back once.
C22_WatermarkReleasedOnce ==
    [][ /\ (Len(stack) = 2 /\ Len(stack') = 1) =>
              /\ objs'[Top.obj] = 1
              /\ Top.Image # NilImage => handles'[Top.Image] = 1
        /\ ( /\ Len(stack) = 1 /\ Len(stack') = 1
             /\ Top.pc = "watermarkWithImage"
             /\ Len(objs') > Len(objs) )
           => objs'[Len(objs')] = 1 ]_vars

\* the options Image.Resize(width, height) leaves on an image made with
\* Options{}, and those of Image.ForceResize(width, height)
ResizeOptions(width, height) ==
    [DefaultOptions EXCEPT !.Width = width, !.Height = height, !.Embed = TRUE]
ForceResizeOptions(width, height) ==
    [DefaultOptions EXCEPT !.Width = width, !.Height = height, !.Force = TRUE]

\* the Process call of the caller has returned without error
Done == Len(stack) = 1 /\ stack[1].pc = "return" /\ stack[1].err = NoErr

\* C23: after Image.Resize(w, h) has returned without error the working image
\* is exactly w pixels wide and h pixels high, whatever the source size.
C23_ResizeExact ==
    \A w \in {2, 16}, h \in {2, 16} :
        (Done /\ stack[1].given = ResizeOptions(w, h)) =>
            (stack[1].Xsize = w /\ stack[1].Ysize = h)

\* C24: after Image.ForceResize(w, h) has returned without error the working
\* image is exactly w x h pixels, whatever the aspect ratio of the source.
C24_ForceResizeExact ==
    \A w \in {2, 16}, h \in {2, 16} :
        (Done /\ stack[1].given = ForceResizeOptions(w, h)) =>
            (stack[1].Xsize = w /\ stack[1].Ysize = h)

\* C25: Image.Metadata and Image.Size terminate on every valid image: the
\* call returns to its caller, with the metadata of the underlying VipsImage.
C25_MetadataTerminates ==
    <>( /\ Len(stack) = 1
        /\ stack[1].pc \in {"Image.Size.return", "Image.Metadata.return"} )

\* the image's handle is nil, or its reference has been given up
Invalid(h) == h = NilImage \/ handles[h] > 0

\* C26: an operation attempted through an image whose handle is nil or has
\* been released returns ErrVipsImageNotValidPointer and makes no engine call.
C26_InvalidHandleRejected ==
    [][ Invalid(Top.Image) =>
          /\ calls' = calls
          /\ Top'.err = ErrVipsImageNotValidPointer ]_vars

\* C27: if the output type (Options.Type, or the source type when it is 0)
\* is not supported for output, Process has returned the unsupported-type
\* error, with no engine call made and the handle the caller passed in.
C27_UnsupportedOutputRejected ==
    LET f == stack[1] IN
      (f.pc # "Process" /\ ~IsTypeSupportedSave(applyDefaults(f).Type)) =>
          /\ f.pc = "return"
          /\ f.err = ErrUnsupportedOutput
          /\ calls = << >>
          /\ f.Image = 1

\* half of a difference, rounded towards zero as Go's integer division is
Half(x) == IF x >= 0 THEN x \div 2 ELSE - ((- x) \div 2)

\* C28: calculateCrop returns, for every size: north -> left = (inW-outW+1)/2,
\* top = 0; east -> left = inW-outW, top = (inH-outH+1)/2; south -> left =
\* (inW-outW+1)/2, top = inH-outH; west -> left = 0, top = (inH-outH+1)/2; any
\* other gravity -> both centred.
C28_CropOffsets ==
    LET f == stack[1]
        dW == f.Xsize - f.o.Width
        dH == f.Ysize - f.o.Height
    IN  f.pc = "calculateCrop.return" =>
          /\ f.o.Gravity = "north" => f.crop = [left |-> Half(dW + 1), top |-> 0]
          /\ f.o.Gravity = "east" => f.crop = [left |-> dW, top |-> Half(dH + 1)]
          /\ f.o.Gravity = "south" => f.crop = [left |-> Half(dW + 1), top |-> dH]
          /\ f.o.Gravity = "west" => f.crop = [left |-> 0, top |-> Half(dH + 1)]
          /\ f.o.Gravity \notin {"north", "east", "south", "west"} =>
                 f.crop = [left |-> Half(dW + 1), top |-> Half(dH + 1)]

\* centre gravity, 1000x800 cropped to 500x400: left = 250, top = 200
C28_Witness ==
    LET f == stack[1] IN
      /\ f.pc = "calculateCrop.return"
      /\ f.o.Gravity = "centre"
      /\ <<f.Xsize, f.Ysize>> = <<1000, 800>>
      /\ <<f.o.Width, f.o.Height>> = <<500, 400>>
      /\ f.crop = [left |-> 250, top |-> 200]

\* C29: in non-additive mode with a nonzero user rotation r,
\* calculateRotationAndFlip yields rotation r and no flip whatever the EXIF
\* orientation is, and rotateAndFlipImage asks the engine to rotate by r.
C29_UserRotationAlone ==
    LET f == stack[1] IN
      (~f.additive /\ f.angle > 0 /\ f.pc # "rotateAndFlipImage") =>
          /\ f.rotation = f.angle
          /\ ~f.flip
          /\ f.pc # "rotate" =>
               \E i \in DOMAIN calls : calls[i].op = "rotate" /\ calls[i].arg = f.angle

\* the engine version is 8.3 or later
AtLeast83(v) == v.major > 8 \/ (v.major = 8 /\ v.minor >= 3)

\* the calls a step adds to the log
NewCalls == SubSeq(calls', Len(calls) + 1, Len(calls'))

\* C30: the shrink-on-load step reloads the source exactly when the computed
\* shrink is >= 2 and the source is a JPEG, or a WebP on an engine of version
\* 8.3 or later; a JPEG is reloaded with the largest of 8, 4, 2 that does not
\* exceed the computed shrink.
C30_ShrinkOnLoadGate ==
    [][ (stack # << >> /\ Top.pc = "shrinkOnLoad") =>
          LET f == Top
              reloads == { i \in DOMAIN NewCalls :
                             NewCalls[i].op \in {"shrink_jpeg", "shrink_webp"} }
          IN  /\ (reloads # {}) <=>
                    /\ f.shrink >= 2
                    /\ \/ f.Type = "JPEG"
                       \/ f.Type = "WEBP" /\ AtLeast83(f.vips)
              /\ \A i \in reloads :
                    NewCalls[i].op = "shrink_jpeg" =>
                        /\ NewCalls[i].arg \in {8, 4, 2}
                        /\ NewCalls[i].arg <= f.shrink
                        /\ \A k \in {8, 4, 2} : k <= f.shrink => k <= NewCalls[i].arg
      ]_vars

\* the integral shrinks the engine applied for the invocation at level lvl:
\* the shrink-on-load reload and the vips_shrink of the transform stage
IntegralShrinks(lvl) ==
    { k \in CallsAt(lvl) : calls[k].ok /\ calls[k].op \in {"shrink_jpeg", "shrink_webp",
                                                          "shrink"} }

RECURSIVE ShrinkProduct(_)
ShrinkProduct(ks) ==
    IF ks = {} THEN 1
    ELSE LET k == CHOOSE x \in ks : TRUE IN calls[k].arg * ShrinkProduct(ks \ {k})

\* the scale factor Process computes before any shrink (line 127)
OriginalFactor(f) ==
    LET o == [f.given EXCEPT !.Rotate = f.o.Rotate]
    IN  ScaleFactor(ClampToSource(normalizeOperation(o), f.inWidth, f.inHeight),
                    f.inWidth, f.inHeight).factor

\* C31: in a Process run the product of the integral shrink factors applied
\* to the image (shrink-on-load times the integral shrink of the transform
\* stage) never exceeds the original scale factor.
C31_ShrinkProductBounded ==
    \A lvl \in 1..Len(stack) :
       (stack[lvl].planned /\ IntegralShrinks(lvl) # {}) =>
           ~RatLess(OriginalFactor(stack[lvl]), <<ShrinkProduct(IntegralShrinks(lvl)), 1>>)

\* C32: with Enlarge false and Force not set, by the caller or by
\* normalizeOperation, no Process run calls the engine's resize with a scale
\* greater than 1.
C32_NoEnlargingResize ==
    \A k \in DOMAIN calls :
       (calls[k].op = "resize" /\ calls[k].lvl <= Len(stack)) =>
           LET f == stack[calls[k].lvl] IN
             (~f.o.Enlarge /\ ~f.o.Force) => ~RatLess(<<1, 1>>, calls[k].arg)

\* C33: if, in the trim branch of the transform stage, the bounding-box
\* detection or the extract that follows it fails, Process returns that error
\* and does not go on with the untrimmed image.
C33_TrimFailureReturned ==
    [][ ( /\ stack # << >>
          /\ Top.pc = "extractOrEmbedImage"
          /\ ExtractCase(Top.o) = "trim"
          /\ \E i \in DOMAIN NewCalls : ~NewCalls[i].ok ) =>
            /\ Top'.pc = "return"
            /\ Top'.err # NoErr ]_vars

\* C34: a sharpen call is made only when Sharpen.Sigma > 0 and (Sharpen.Y2 > 0
\* or Sharpen.Y3 > 0); with Sigma = 0 there is none, whatever Y2 and Y3 are.
C34_SharpenNeedsSigma ==
    \A k \in DOMAIN calls :
       (calls[k].op = "sharpen" /\ calls[k].lvl <= Len(stack)) =>
           LET sh == stack[calls[k].lvl].o.Sharpen IN
             sh.Sigma > 0 /\ (sh.Y2 > 0 \/ sh.Y3 > 0)

\* the rotate/flip stage of the running invocation has rotated, flipped or
\* flopped the image
RotationApplied ==
    \E k \in CallsAt(Len(stack)) : calls[k].ok /\ calls[k].op \in {"rotate", "flip"}

\* C35: if the rotate/flip stage applied a rotation, flip or flop, the stages
\* after it start with a buffer encoded from the rotated handle, and a
\* shrink-on-load reload decodes that buffer.
C35_BufferRefreshedAfterRotation ==
    [][ ( /\ stack # << >>
          /\ Top.pc \in {"plan", "shrinkOnLoad"}
          /\ RotationApplied ) =>
            /\ Top.Buffer.of = Top.Image
            /\ <<Top.Buffer.w, Top.Buffer.h>> = <<Top.Xsize, Top.Ysize>> ]_vars

\* a JPEG rotated by 90 degrees, re-encoded, and reloaded with a shrink
C35_Witness ==
    \E i, j, k \in DOMAIN calls :
       /\ i < j /\ j < k
       /\ calls[i].op = "rotate" /\ calls[i].ok /\ calls[i].arg = D90
       /\ calls[j].op = "save" /\ calls[j].ok /\ calls[j].on # calls[i].on
       /\ calls[k].op = "shrink_jpeg" /\ calls[k].ok /\ calls[k].on = calls[j].on

ExtractRequested(o) ==
    \E top \in 0..1, left \in 0..1, width \in 1..2, height \in 1..2 :
       o = [DefaultOptions EXCEPT !.Extract = ExtractOptions(top, left, width, height)]

\* C38: every extract-area call made for Image.Extract(top, left, width,
\* height) with top >= 0 and left >= 0 passes offsets that are not negative
\* to the engine, top = 0 and left = 0 included.
C38_ExtractOffsetsNonNegative ==
    [][ ( /\ stack # << >>
          /\ Top.pc = "extractOrEmbedImage"
          /\ ExtractRequested(Top.given) ) =>
            \A k \in Dispatched :
               calls'[k].op = "extract" =>
                  (calls'[k].arg.left >= 0 /\ calls'[k].arg.top >= 0) ]_vars

\* C39: when loading fails in NewVipsImage or NewImage (empty buffer, unknown
\* format, decode error) every pooled object taken for the call has gone back
\* to its pool.
C39_FailedConstructorReturnsObjects ==
    [][ (Len(objs') > Len(objs) /\ stack' = << >>) =>
           \A k \in (Len(objs) + 1)..Len(objs') : objs'[k] = 1 ]_vars

\* C40: the nested Process run started for an image watermark has options
\* with no watermark text and no watermark image, so it starts no further
\* watermark stage: the nesting depth is at most one, and every Process call
\* returns.
C40_WatermarkNestingTerminates ==
    /\ [] /\ Len(stack) <= 2
          /\ Len(stack) = 2 =>
                /\ ~stack[2].o.WatermarkText
                /\ stack[2].o.WatermarkImage.Buf = "none"
    /\ <>(Len(stack) = 1 /\ stack[1].pc = "return")

\* the nested run of an image watermark has passed its own watermark stages
C40_Witness ==
    /\ Len(stack) = 2
    /\ stack[1].o.WatermarkImage.Buf # "none"
    /\ stack[2].pc = StageAfter("watermarkWithImage")
    /\ stack[2].err = NoErr

====
